---- MODULE Spec2Model ----
(***************************************************************************)
(* Hierarchical aggregation engine of the spectral-analysis application    *)
(* (src/src/analysis_utils.py), the exporters and plot listings that walk  *)
(* its result trees (src/src/export_utils.py, src/src/plotting/*.py) and   *)
(* the script run of src/app.py that calls it.                             *)
(*                                                                         *)
(* Representation.                                                         *)
(*  - A Python value is a record tagged by t: "num" (a float, kept as the  *)
(*    exact rational n/d in lowest terms, d > 0), "nan", "none", "list",   *)
(*    "arr" (a numpy array) and "dict" (entries in insertion order).       *)
(*    The tree passes compute in exact arithmetic; the specification       *)
(*    SpecFloat at the end computes the PAC statistics in rounded binary   *)
(*    floating point, for statements about bit-exact equality.             *)
(*  - A standard error s >= 0 is represented by the rational s*s, because  *)
(*    square roots leave the rationals.  s |-> s*s is injective on s >= 0, *)
(*    so "the SEM is 0" and "two SEMs are equal" read the same on squares. *)
(*    Every field that holds an SEM ('errors', 'sems', 'sem_power', 'sem') *)
(*    holds the square in this model, the leaves' included.                *)
(*  - A raised Python exception is the value Raise.                        *)
(***************************************************************************)
EXTENDS Integers, Sequences, FiniteSets, TLC

VARIABLES
    all_results,   \* the dict handed to calculate_hierarchical_means (mutated in place)
    results,       \* what calculate_hierarchical_means returned; st.session_state.results
    pc,            \* control point of the script run / of the pass
    fam,           \* index in FamilyOrder of the family being processed
    fi,            \* position in the family's items() loop (file entries)
    ci,            \* position in the file's items() loop (channel entries)
    chanAcc,       \* all_channel_* lists of the file being processed
    fileAcc,       \* all_file_* lists of the family being processed
    frequencies,   \* the local 'frequencies' of _process_psd_results
    writes,        \* history: summary keys written by the current pass, in order
    session,       \* st.session_state of app.py (its trees are the ones of all_results)
    run            \* the caller: a direct call with its input, or a script run of app.py

vars == <<all_results, results, pc, fam, fi, ci, chanAcc, fileAcc, frequencies, writes,
          session, run>>

-----------------------------------------------------------------------------
(* Bounds of the model *)

MaxFiles == 2
MaxChans == 2
MaxSlices == 3
NBands == 2
NBins == 2

-----------------------------------------------------------------------------
(* Python values *)

NaN == [t |-> "nan"]
None == [t |-> "none"]
Raise == [t |-> "raise"]
PyList(e) == [t |-> "list", e |-> e]
NpArr(e) == [t |-> "arr", e |-> e]
PyDict(e) == [t |-> "dict", e |-> e]
Entry(k, v) == [k |-> k, v |-> v]

IsNum(x) == x.t = "num"
IsNaN(x) == x.t = "nan"
IsNone(x) == x.t = "none"
IsDict(x) == x.t = "dict"
IsList(x) == x.t = "list"
IsArr(x) == x.t = "arr"
IsRaise(x) == x.t = "raise"

Keys(d) == [i \in 1..Len(d.e) |-> d.e[i].k]
KeySet(d) == {d.e[i].k : i \in 1..Len(d.e)}
Has(d, k) == k \in KeySet(d)
Get(d, k) == d.e[CHOOSE i \in 1..Len(d.e) : d.e[i].k = k].v
\* d[k] = v: replaces the value of an existing key in place, appends a new key.
Put(d, k, v) ==
    IF Has(d, k)
    THEN PyDict([i \in 1..Len(d.e) |-> IF d.e[i].k = k THEN Entry(k, v) ELSE d.e[i]])
    ELSE PyDict(Append(d.e, Entry(k, v)))

RECURSIVE SumSeq(_)
SumSeq(s) == IF s = <<>> THEN 0 ELSE Head(s) + SumSeq(Tail(s))

-----------------------------------------------------------------------------
(* Exact arithmetic on floats *)

Abs(x) == IF x < 0 THEN -x ELSE x

RECURSIVE Gcd(_, _)
Gcd(a, b) == IF b = 0 THEN a ELSE Gcd(b, a % b)

Lcm(a, b) == (a \div Gcd(a, b)) * b

Rat(n, d) ==
    LET g == Gcd(Abs(n), d)
    IN [t |-> "num", n |-> n \div g, d |-> d \div g]

Int2F(n) == Rat(n, 1)
Zero == Int2F(0)

FAdd(x, y) ==
    IF IsNaN(x) \/ IsNaN(y) THEN NaN
    ELSE LET l == Lcm(x.d, y.d)
         IN Rat(x.n * (l \div x.d) + y.n * (l \div y.d), l)

FNeg(x) == IF IsNaN(x) THEN NaN ELSE [t |-> "num", n |-> -x.n, d |-> x.d]

FSub(x, y) == FAdd(x, FNeg(y))

FMul(x, y) ==
    IF IsNaN(x) \/ IsNaN(y) THEN NaN
    ELSE LET g1 == Gcd(Abs(x.n), y.d)
             g2 == Gcd(Abs(y.n), x.d)
         IN Rat((x.n \div g1) * (y.n \div g2), (x.d \div g2) * (y.d \div g1))

\* x / k for an integer k > 0
FDivInt(x, k) ==
    IF IsNaN(x) THEN NaN
    ELSE LET g == Gcd(Abs(x.n), k)
         IN Rat(x.n \div g, x.d * (k \div g))

\* x / y for a float y # 0
FDiv(x, y) ==
    IF IsNaN(x) \/ IsNaN(y) THEN NaN
    ELSE IF y.n > 0 THEN FMul(x, [t |-> "num", n |-> y.d, d |-> y.n])
         ELSE FMul(x, [t |-> "num", n |-> -y.d, d |-> -y.n])

RECURSIVE FSum(_)
FSum(s) == IF s = <<>> THEN Zero ELSE FAdd(Head(s), FSum(Tail(s)))
-----------------------------------------------------------------------------
(* numpy / scipy primitives used by the aggregation *)

HasNone(v) == \E i \in 1..Len(v) : IsNone(v[i])
HasNaN(v) == \E i \in 1..Len(v) : IsNaN(v[i])

NotNaN(x) == ~IsNaN(x)

\* nan_policy='omit': the NaN entries are dropped before the statistic
OmitNaN(v) == SelectSeq(v, NotNaN)

\* np.mean(v) of a list of floats (NaN propagates; None cannot be added)
NpMean(v) ==
    IF HasNone(v) THEN Raise
    ELSE IF v = <<>> THEN NaN
    ELSE FDivInt(FSum(v), Len(v))

\* square of the sample SEM (ddof = 1) of the floats w: undefined below 2 values
SampleSemSq(w) ==
    LET n == Len(w)
        s1 == FSum(w)
        s2 == FSum([i \in 1..n |-> FMul(w[i], w[i])])
    IN IF n < 2 THEN NaN
       ELSE FDivInt(FSub(FMul(Int2F(n), s2), FMul(s1, s1)), n * n * (n - 1))

\* scipy.stats.sem(v, nan_policy='omit')
ScipySem(v) ==
    IF HasNone(v) THEN Raise ELSE SampleSemSq(OmitNaN(v))

Column(rows, j) == [i \in 1..Len(rows) |-> rows[i][j]]

Rectangular(rows) == \A i \in 1..Len(rows) : Len(rows[i]) = Len(rows[1])

\* an exception raised where an array was expected
RaiseVec == <<Raise>>
RaiseMat == <<RaiseVec>>
AnyRaise(v) == \E j \in 1..Len(v) : IsRaise(v[j])
AnyRaise2D(m) == \E r \in 1..Len(m) : AnyRaise(m[r])

\* np.average(np.array(rows), axis=0, weights=np.array(w))
NpAverage(rows, w) ==
    IF Len(rows) # Len(w) \/ rows = <<>> THEN RaiseVec        \* ValueError / TypeError
    ELSE IF ~Rectangular(rows) THEN RaiseVec
    ELSE IF \E i \in 1..Len(rows) : HasNone(rows[i]) THEN RaiseVec
    ELSE IF FSum(w) = Zero THEN RaiseVec                       \* ZeroDivisionError
    ELSE [j \in 1..Len(rows[1]) |->
            FDiv(FSum([i \in 1..Len(rows) |-> FMul(w[i], rows[i][j])]), FSum(w))]

\* np.mean(rows, axis=0)
NpMeanAxis0(rows) ==
    IF ~Rectangular(rows) \/ \E i \in 1..Len(rows) : HasNone(rows[i]) THEN RaiseVec
    ELSE [j \in 1..Len(rows[1]) |-> NpMean(Column(rows, j))]

\* scipy.stats.sem(rows, axis=0, nan_policy='omit')
ScipySemAxis0(rows) ==
    IF ~Rectangular(rows) \/ \E i \in 1..Len(rows) : HasNone(rows[i]) THEN RaiseVec
    ELSE [j \in 1..Len(rows[1]) |-> ScipySem(Column(rows, j))]

\* a variant that takes the sample SEM of the children's errors (mutation of C5)
SampleOfErrors(errs) == ScipySemAxis0(errs)

\* np.sqrt(np.sum(np.square(errs), axis=0)) / len(errs), on squared SEMs
QuadratureSem(errs) ==
    IF ~Rectangular(errs) \/ \E i \in 1..Len(errs) : HasNone(errs[i]) THEN RaiseVec
    ELSE [j \in 1..Len(errs[1]) |-> FDivInt(FSum(Column(errs, j)), Len(errs) * Len(errs))]

\* np.zeros_like(v)
ZerosLike(v) == [j \in 1..Len(v) |-> Zero]

\* the same three statistics on stacks of 2-D matrices (comodulograms)
MatColumn(ms, r, c) == [i \in 1..Len(ms) |-> ms[i][r][c]]

SameShape(ms) ==
    \A i \in 1..Len(ms) :
        /\ Len(ms[i]) = Len(ms[1])
        /\ \A r \in 1..Len(ms[i]) : Len(ms[i][r]) = Len(ms[1][r])

MatHasNone(ms) == \E i \in 1..Len(ms) : \E r \in 1..Len(ms[i]) : HasNone(ms[i][r])

NpMean2D(ms) ==
    IF ~SameShape(ms) \/ MatHasNone(ms) THEN RaiseMat
    ELSE [r \in 1..Len(ms[1]) |-> [c \in 1..Len(ms[1][r]) |-> NpMean(MatColumn(ms, r, c))]]

ScipySem2D(ms) ==
    IF ~SameShape(ms) \/ MatHasNone(ms) THEN RaiseMat
    ELSE [r \in 1..Len(ms[1]) |-> [c \in 1..Len(ms[1][r]) |-> ScipySem(MatColumn(ms, r, c))]]

ZerosLike2D(m) == [r \in 1..Len(m) |-> ZerosLike(m[r])]

\* ndarray.tolist()
ToList(v) == PyList(v)
ToList2D(m) == PyList([r \in 1..Len(m) |-> PyList(m[r])])
\* np.array(list of lists) / np.array(list)
Unwrap(l) == l.e
Unwrap2D(l) == [r \in 1..Len(l.e) |-> l.e[r].e]

-----------------------------------------------------------------------------
(* Time-slice labels.  A TLA+ string is atomic, so the characters of every *)
(* label the model uses, and of the keys of a summary node, are listed     *)
(* here; the regular expression and                                        *)
(* str.endswith run on the characters.                                     *)

Chars(label) ==
    CASE label = "0.0-10.0s" ->
            <<"0", ".", "0", "-", "1", "0", ".", "0", "s">>
      [] label = "10.0-40.0s" ->
            <<"1", "0", ".", "0", "-", "4", "0", ".", "0", "s">>
      [] label = "40.0-80.0s" ->
            <<"4", "0", ".", "0", "-", "8", "0", ".", "0", "s">>
      [] label = "80.0-100.0s" ->
            <<"8", "0", ".", "0", "-", "1", "0", "0", ".", "0", "s">>
      [] label = "-5.0-10.0s" ->
            <<"-", "5", ".", "0", "-", "1", "0", ".", "0", "s">>
      [] label = "0.5-3.5s" ->
            <<"0", ".", "5", "-", "3", ".", "5", "s">>
      [] label = "4.0-8.0s" ->
            <<"4", ".", "0", "-", "8", ".", "0", "s">>
      [] label = "8.0-16.0s" ->
            <<"8", ".", "0", "-", "1", "6", ".", "0", "s">>
      [] label = "0.0-10.0s_sliding" ->
            <<"0", ".", "0", "-", "1", "0", ".", "0", "s", "_", "s", "l", "i", "d", "i", "n", "g">>
      [] label = "10.0-40.0s_sliding" ->
            <<"1", "0", ".", "0", "-", "4", "0", ".", "0", "s", "_", "s", "l", "i", "d", "i", "n", "g">>
      [] label = "40.0-80.0s_sliding" ->
            <<"4", "0", ".", "0", "-", "8", "0", ".", "0", "s", "_", "s", "l", "i", "d", "i", "n", "g">>
      [] label = "80.0-100.0s_sliding" ->
            <<"8", "0", ".", "0", "-", "1", "0", "0", ".", "0", "s", "_", "s", "l", "i", "d", "i", "n", "g">>
      [] label = "-5.0-10.0s_sliding" ->
            <<"-", "5", ".", "0", "-", "1", "0", ".", "0", "s", "_", "s", "l", "i", "d", "i", "n", "g">>
      [] label = "0.5-3.5s_sliding" ->
            <<"0", ".", "5", "-", "3", ".", "5", "s", "_", "s", "l", "i", "d", "i", "n", "g">>
      [] label = "4.0-8.0s_sliding" ->
            <<"4", ".", "0", "-", "8", ".", "0", "s", "_", "s", "l", "i", "d", "i", "n", "g">>
      [] label = "8.0-16.0s_sliding" ->
            <<"8", ".", "0", "-", "1", "6", ".", "0", "s", "_", "s", "l", "i", "d", "i", "n", "g">>
      [] label = "means" -> <<"m", "e", "a", "n", "s">>
      [] label = "sems" -> <<"s", "e", "m", "s">>
      [] label = "errors" -> <<"e", "r", "r", "o", "r", "s">>
      [] label = "band_power" -> <<"b", "a", "n", "d", "_", "p", "o", "w", "e", "r">>
      [] label = "full_psd" -> <<"f", "u", "l", "l", "_", "p", "s", "d">>

Digits == {"0", "1", "2", "3", "4", "5", "6", "7", "8", "9"}

DigitVal(c) ==
    CASE c = "0" -> 0 [] c = "1" -> 1 [] c = "2" -> 2 [] c = "3" -> 3 [] c = "4" -> 4
      [] c = "5" -> 5 [] c = "6" -> 6 [] c = "7" -> 7 [] c = "8" -> 8 [] c = "9" -> 9

\* position after the longest run of digits of cs that starts at i (\d*)
RECURSIVE DigitsEnd(_, _)
DigitsEnd(cs, i) ==
    IF i <= Len(cs) /\ cs[i] \in Digits THEN DigitsEnd(cs, i + 1) ELSE i

\* position after the match of \d+\.?\d* at i; 0 when it does not match
NumberEnd(cs, i) ==
    LET a == DigitsEnd(cs, i)
    IN IF a = i THEN 0
       ELSE IF a <= Len(cs) /\ cs[a] = "." THEN DigitsEnd(cs, a + 1)
       ELSE a

\* the integer written by the digits cs[i..j-1] (0 for none)
RECURSIVE DigitsInt(_, _, _)
DigitsInt(cs, i, j) ==
    IF j <= i THEN 0 ELSE 10 * DigitsInt(cs, i, j - 1) + DigitVal(cs[j - 1])

RECURSIVE Pow10(_)
Pow10(k) == IF k = 0 THEN 1 ELSE 10 * Pow10(k - 1)

\* float(text) of the matched group cs[i..j-1]
ParseFloat(cs, i, j) ==
    LET a == DigitsEnd(cs, i)
    IN IF a >= j THEN Int2F(DigitsInt(cs, i, j))
       ELSE FAdd(Int2F(DigitsInt(cs, i, a)),
                 Rat(DigitsInt(cs, a + 1, j), Pow10(j - a - 1)))

\* re.match(r'(\d+\.?\d*)-(\d+\.?\d*)s', time_slice): the groups' spans, or no match
ReMatchSlice(cs) ==
    LET e1 == NumberEnd(cs, 1)
        e2 == IF e1 = 0 THEN 0 ELSE NumberEnd(cs, e1 + 1)
    IN IF e1 = 0 \/ e1 > Len(cs) THEN [ok |-> FALSE]
       ELSE IF cs[e1] # "-" THEN [ok |-> FALSE]
       ELSE IF e2 = 0 \/ e2 > Len(cs) THEN [ok |-> FALSE]
       ELSE IF cs[e2] # "s" THEN [ok |-> FALSE]
       ELSE [ok |-> TRUE, s1 |-> 1, e1 |-> e1, s2 |-> e1 + 1, e2 |-> e2]

\* a variant that gives every slice the weight 1.0 (mutation of C2)
UnitDuration(time_slice) == Int2F(1)

\* float(end_str) - float(start_str) of the match m on the characters cs
MatchedDuration(cs, m) ==
    IF m.ok
    THEN FSub(ParseFloat(cs, m.s2, m.e2), ParseFloat(cs, m.s1, m.e1))
    ELSE Int2F(1)

\* the weight read from the characters of a label
DurationOfChars(cs) == MatchedDuration(cs, ReMatchSlice(cs))

\* the weight of a time slice: end - start of its label, 1.0 when it does not parse
SliceDuration(time_slice) == DurationOfChars(Chars(time_slice))

\* time_slice.endswith('_sliding')
EndsWithSliding(time_slice) ==
    LET cs == Chars(time_slice)
        n == Len(cs)
    IN n >= 8 /\ SubSeq(cs, n - 7, n) = <<"_", "s", "l", "i", "d", "i", "n", "g">>

\* f"{slice_info}_sliding"
SlidingLabel(label) ==
    CASE label = "0.0-10.0s" -> "0.0-10.0s_sliding"
      [] label = "10.0-40.0s" -> "10.0-40.0s_sliding"
      [] label = "40.0-80.0s" -> "40.0-80.0s_sliding"
      [] label = "80.0-100.0s" -> "80.0-100.0s_sliding"

AGGREGATION_KEYS ==
    {"mean_across_time", "mean_across_channels", "mean_across_pairs", "grand_mean", "grand_sem"}
-----------------------------------------------------------------------------
(* _process_psd_results: the body of each loop level *)

IsReservedEntry(en) == en.k \in AGGREGATION_KEYS
IsDataEntry(en) == en.k \notin AGGREGATION_KEYS

\* the entries of a dict that a loop does not skip as reserved
NonReserved(d) == SelectSeq(d.e, IsDataEntry)

PsdHasBand(en) == IsDict(en.v) /\ Has(en.v, "band_power")
PsdHasFull(en) ==
    IsDict(en.v) /\ Has(en.v, "full_psd") /\ Has(Get(en.v, "full_psd"), "power")

\* the inner loop over a channel's time slices
PsdCollect(time_slices, freq0) ==
    LET sl == NonReserved(time_slices)
        withBand == SelectSeq(sl, PsdHasBand)
        withFull == SelectSeq(sl, PsdHasFull)
    IN [durations |-> [i \in 1..Len(sl) |-> SliceDuration(sl[i].k)],
        band_means_list |->
            [i \in 1..Len(withBand) |-> Unwrap(Get(Get(withBand[i].v, "band_power"), "means"))],
        band_errors_list |->
            [i \in 1..Len(withBand) |-> Unwrap(Get(Get(withBand[i].v, "band_power"), "errors"))],
        full_psd_powers |->
            [i \in 1..Len(withFull) |-> Unwrap(Get(Get(withFull[i].v, "full_psd"), "power"))],
        frequencies |->
            IF IsNone(freq0) /\ withFull # <<>>
            THEN Get(Get(withFull[1].v, "full_psd"), "frequencies")
            ELSE freq0]

PsdSummary(mean_band, sem_band, mean_psd, sem_psd, freq) ==
    PyDict(<<Entry("band_power",
                   PyDict(<<Entry("means", ToList(mean_band)), Entry("errors", ToList(sem_band))>>)),
             Entry("full_psd",
                   PyDict(<<Entry("mean_power", ToList(mean_psd)),
                            Entry("sem_power", ToList(sem_psd)),
                            Entry("frequencies", freq)>>))>>)

\* what one level hands back to the loop around it: whether it raised, whether
\* it wrote a summary, the dict it worked on, the accumulator and 'frequencies'
Res(raised, added, node, acc, freq) ==
    [raised |-> raised, added |-> added, node |-> node, acc |-> acc, freq |-> freq]

\* the {'mean', 'sem', 'weight'} items appended for the next level
PsdItem(mean_band, sem_band, mean_psd, sem_psd, weight) ==
    [band |-> [mean |-> mean_band, sem |-> sem_band, weight |-> weight],
     psd |-> [mean |-> mean_psd, sem |-> sem_psd, weight |-> weight]]

\* node[key] = {...}; all_*_means_sems.append({...})
PsdWrite(node, key, acc, freq, mean_band, sem_band, mean_psd, sem_psd, weight) ==
    Res(FALSE, TRUE,
        Put(node, key, PsdSummary(mean_band, sem_band, mean_psd, sem_psd, freq)),
        Append(acc, PsdItem(mean_band, sem_band, mean_psd, sem_psd, weight)),
        freq)

\* SEM of band power across the time slices of one channel
PsdSemBandAcrossTime(band_errors_list, mean_band) ==
    IF Len(band_errors_list) > 0 THEN QuadratureSem(band_errors_list) ELSE ZerosLike(mean_band)

\* SEM of the full spectrum across the time slices of one channel
PsdSemFullAcrossTime(full_psd_powers, mean_psd) ==
    IF Len(full_psd_powers) > 1 THEN ScipySemAxis0(full_psd_powers) ELSE ZerosLike(mean_psd)

PsdChannelSems(time_slices, acc, c, mean_band, mean_psd, sem_band) ==
    IF AnyRaise(sem_band) THEN Res(TRUE, FALSE, time_slices, acc, c.frequencies)
    ELSE PsdWrite(time_slices, "mean_across_time", acc, c.frequencies,
                  mean_band, sem_band,
                  mean_psd, PsdSemFullAcrossTime(c.full_psd_powers, mean_psd),
                  FSum(c.durations))

PsdChannelMeans(time_slices, acc, c, mean_band, mean_psd) ==
    IF AnyRaise(mean_band) \/ AnyRaise(mean_psd)
    THEN Res(TRUE, FALSE, time_slices, acc, c.frequencies)
    ELSE PsdChannelSems(time_slices, acc, c, mean_band, mean_psd,
                        PsdSemBandAcrossTime(c.band_errors_list, mean_band))

PsdChannelOf(time_slices, acc, c) ==
    IF c.band_means_list = <<>> THEN Res(FALSE, FALSE, time_slices, acc, c.frequencies)
    ELSE PsdChannelMeans(time_slices, acc, c,
                         NpAverage(c.band_means_list, c.durations),
                         NpAverage(c.full_psd_powers, c.durations))

\* one channel: time slices -> mean_across_time
PsdChannel(time_slices, acc, freq0) ==
    PsdChannelOf(time_slices, acc, PsdCollect(time_slices, freq0))

Means(items) == [i \in 1..Len(items) |-> items[i].mean]

\* a variant that weighs every child alike (mutation of C23)
UnitWeights(items) == [i \in 1..Len(items) |-> Int2F(1)]
Weights(items) == [i \in 1..Len(items) |-> items[i].weight]
BandOf(items) == [i \in 1..Len(items) |-> items[i].band]
FullOf(items) == [i \in 1..Len(items) |-> items[i].psd]

\* a variant without the guard on the number of channels (mutation of C1)
PsdSemUnguarded(channel_means, mean) == ScipySemAxis0(channel_means)

\* SEM of the means of a file's channels
PsdSemAcrossChannels(channel_means, mean) ==
    IF Len(channel_means) > 1 THEN ScipySemAxis0(channel_means) ELSE ZerosLike(mean)

PsdFileMeans(channels, file_acc, freq, band, full, mean_band, mean_psd) ==
    IF AnyRaise(mean_band) \/ AnyRaise(mean_psd) THEN Res(TRUE, FALSE, channels, file_acc, freq)
    ELSE PsdWrite(channels, "mean_across_channels", file_acc, freq,
                  mean_band, PsdSemAcrossChannels(Means(band), mean_band),
                  mean_psd, PsdSemAcrossChannels(Means(full), mean_psd),
                  FSum(Weights(band)))

PsdFileOf(channels, file_acc, freq, band, full) ==
    PsdFileMeans(channels, file_acc, freq, band, full,
                 NpAverage(Means(band), Weights(band)),
                 NpAverage(Means(full), Weights(band)))

\* one file: channel means -> mean_across_channels
PsdFile(channels, items, file_acc, freq) ==
    IF items = <<>> THEN Res(FALSE, FALSE, channels, file_acc, freq)
    ELSE PsdFileOf(channels, file_acc, freq, BandOf(items), FullOf(items))

\* a variant that recomputes the grand SEM over the files, 0 for one file
\* (mutation of C18)
PsdGrandRecomputed(items) ==
    [mean |-> NpAverage(Means(items), Weights(items)),
     sem |-> PsdSemAcrossChannels(Means(items), items[1].mean)]
\* the grand mean and SEM of one column of file results: with one file both
\* are that file's own
PsdGrandOf(items) ==
    IF Len(items) = 1
    THEN [mean |-> items[1].mean, sem |-> items[1].sem]
    ELSE [mean |-> NpAverage(Means(items), Weights(items)),
          sem |-> ScipySemAxis0(Means(items))]

PsdGrandWrite(psd_data, freq, b, p) ==
    IF AnyRaise(b.mean) \/ AnyRaise(p.mean) THEN Res(TRUE, FALSE, psd_data, <<>>, freq)
    ELSE Res(FALSE, TRUE,
             Put(psd_data, "grand_mean", PsdSummary(b.mean, b.sem, p.mean, p.sem, freq)),
             <<>>, freq)

\* a variant that writes no grand mean (mutation of C24)
PsdGrandSkipped(psd_data, items, freq) == Res(FALSE, FALSE, psd_data, <<>>, freq)

\* all files: file means -> grand_mean
PsdGrand(psd_data, items, freq) ==
    IF items = <<>> THEN Res(FALSE, FALSE, psd_data, <<>>, freq)
    ELSE PsdGrandWrite(psd_data, freq, PsdGrandOf(BandOf(items)), PsdGrandOf(FullOf(items)))

-----------------------------------------------------------------------------
(* _process_pac_results: the body of each loop level *)

\* {k: Stat([dic[k] for dic in dicts]) for k in dicts[0]}
DictStat(dicts, Stat(_)) ==
    LET ks == Keys(dicts[1])
        vals == [j \in 1..Len(ks) |->
                    Stat([i \in 1..Len(dicts) |-> Get(dicts[i], ks[j])])]
    IN IF \E i \in 1..Len(dicts) : ~IsDict(dicts[i])
       THEN Raise                                              \* TypeError
       ELSE IF \E i \in 1..Len(dicts) : \E j \in 1..Len(ks) : ~Has(dicts[i], ks[j])
       THEN Raise                                              \* KeyError
       ELSE IF AnyRaise(vals) THEN Raise
       ELSE PyDict([j \in 1..Len(ks) |-> Entry(ks[j], vals[j])])

\* {k: 0.0 for k in metrics_dict.keys()}
ZeroDict(d) == PyDict([j \in 1..Len(d.e) |-> Entry(d.e[j].k, Zero)])

IsPacLeafEntry(en) == en.k \notin AGGREGATION_KEYS /\ ~EndsWithSliding(en.k)

\* metrics_across_time of one band of one channel
PacLeaves(time_slices) ==
    LET sl == SelectSeq(time_slices.e, IsPacLeafEntry)
    IN [i \in 1..Len(sl) |-> sl[i].v]

PacMeanSemOf(dicts, mean) ==
    IF IsRaise(mean) THEN [raised |-> TRUE]
    ELSE [raised |-> FALSE, mean |-> mean,
          sem |-> IF Len(dicts) > 1 THEN DictStat(dicts, ScipySem) ELSE ZeroDict(mean)]

\* the mean and SEM dicts of a list of metric dicts (time slices or channels)
PacMeanSem(dicts) == PacMeanSemOf(dicts, DictStat(dicts, NpMean))

PacSummary(r) == PyDict(<<Entry("means", r.mean), Entry("sems", r.sem)>>)
PacItem(r) == [mean |-> r.mean, sem |-> r.sem]

\* all_*_means_by_band.setdefault(band_info, []).append(item)
AccAppend(acc, band_info, item) ==
    Put(acc, band_info, Append(IF Has(acc, band_info) THEN Get(acc, band_info) ELSE <<>>, item))

\* a variant that stores the band's summary beside the channels (mutation of C11)
PutBesideChannels(d, key, band_info, summary) == Put(d, band_info, summary)
\* d.setdefault(key, {})[band_info] = summary
SetDefaultPut(d, key, band_info, summary) ==
    Put(d, key, Put(IF Has(d, key) THEN Get(d, key) ELSE PyDict(<<>>), band_info, summary))

\* one channel: for every band, time slices -> mean_across_time (bands i.. still to do)
RECURSIVE PacChannelFrom(_, _, _, _)
PacBandWrite(bands, acc, freq, i, en, r) ==
    IF r.raised THEN Res(TRUE, FALSE, bands, acc, freq)
    ELSE PacChannelFrom(Put(bands, en.k, Put(en.v, "mean_across_time", PacSummary(r))),
                        AccAppend(acc, en.k, PacItem(r)), freq, i + 1)

PacBand(bands, acc, freq, i, en, leaves) ==
    IF leaves = <<>> THEN PacChannelFrom(bands, acc, freq, i + 1)
    ELSE PacBandWrite(bands, acc, freq, i, en, PacMeanSem(leaves))

PacChannelFrom(bands, acc, freq, i) ==
    IF i > Len(bands.e) THEN Res(FALSE, FALSE, bands, acc, freq)
    ELSE IF bands.e[i].k \in AGGREGATION_KEYS \/ ~IsDict(bands.e[i].v)
    THEN PacChannelFrom(bands, acc, freq, i + 1)
    ELSE PacBand(bands, acc, freq, i, bands.e[i], PacLeaves(bands.e[i].v))

\* a PAC level wrote something exactly when its accumulator grew
PacAdded(r, acc0) == [r EXCEPT !.added = ~r.raised /\ r.acc # acc0]

PacChannel(bands, acc, freq) == PacAdded(PacChannelFrom(bands, acc, freq, 1), acc)

\* one file: for every band, channel means -> mean_across_channels
RECURSIVE PacFileFrom(_, _, _, _, _)
PacFileWrite(channels, chan_acc, file_acc, freq, i, en, r) ==
    IF r.raised THEN Res(TRUE, FALSE, channels, file_acc, freq)
    ELSE PacFileFrom(SetDefaultPut(channels, "mean_across_channels", en.k, PacSummary(r)),
                     chan_acc, AccAppend(file_acc, en.k, PacItem(r)), freq, i + 1)

PacFileFrom(channels, chan_acc, file_acc, freq, i) ==
    IF i > Len(chan_acc.e) THEN Res(FALSE, FALSE, channels, file_acc, freq)
    ELSE PacFileWrite(channels, chan_acc, file_acc, freq, i, chan_acc.e[i],
                      PacMeanSem(Means(chan_acc.e[i].v)))

PacFile(channels, chan_acc, file_acc, freq) ==
    PacAdded(PacFileFrom(channels, chan_acc, file_acc, freq, 1), file_acc)

PacGrandOfMean(file_means_list, mean) ==
    IF IsRaise(mean) THEN [raised |-> TRUE]
    ELSE [raised |-> FALSE, mean |-> mean,
          sem |-> IF Len(file_means_list) > 1
                  THEN DictStat(Means(file_means_list), ScipySem)
                  ELSE file_means_list[1].sem]

\* the grand mean and SEM of one band: with one file the SEM is that file's own
PacGrandOf(file_means_list) ==
    PacGrandOfMean(file_means_list, DictStat(Means(file_means_list), NpMean))

\* all files: for every band, file means -> grand_mean
RECURSIVE PacGrandFrom(_, _, _, _)
PacGrandWrite(pac_data, file_acc, freq, i, en, r) ==
    IF r.raised THEN Res(TRUE, FALSE, pac_data, <<>>, freq)
    ELSE PacGrandFrom(SetDefaultPut(pac_data, "grand_mean", en.k, PacSummary(r)),
                      file_acc, freq, i + 1)

PacGrandFrom(pac_data, file_acc, freq, i) ==
    IF i > Len(file_acc.e) THEN Res(FALSE, file_acc.e # <<>>, pac_data, <<>>, freq)
    ELSE PacGrandWrite(pac_data, file_acc, freq, i, file_acc.e[i], PacGrandOf(file_acc.e[i].v))

PacGrand(pac_data, file_acc, freq) == PacGrandFrom(pac_data, file_acc, freq, 1)

-----------------------------------------------------------------------------
(* _process_coh_results and _process_comod_results *)

CohHasBand(en) ==
    en.k \notin AGGREGATION_KEYS /\ IsDict(en.v) /\ Has(en.v, "band_coherence")

CohMeansList(time_slices) ==
    LET sl == SelectSeq(time_slices.e, CohHasBand)
    IN [i \in 1..Len(sl) |-> Unwrap(Get(Get(sl[i].v, "band_coherence"), "means"))]

CohMeanSemOf(rows, mean) ==
    IF AnyRaise(mean) THEN [raised |-> TRUE]
    ELSE [raised |-> FALSE, mean |-> mean,
          sem |-> IF Len(rows) > 1 THEN ScipySemAxis0(rows) ELSE ZerosLike(mean)]

\* np.mean over the rows and their sample SEM, zeros for a single row
CohMeanSem(rows) == CohMeanSemOf(rows, NpMeanAxis0(rows))

\* the summaries of the coherence pass hold the ndarrays themselves
CohSummary(r) == PyDict(<<Entry("means", NpArr(r.mean)), Entry("errors", NpArr(r.sem))>>)

CohWrite(node, key, acc, freq, r) ==
    IF r.raised THEN Res(TRUE, FALSE, node, acc, freq)
    ELSE Res(FALSE, TRUE, Put(node, key, CohSummary(r)), Append(acc, PacItem(r)), freq)

\* one level of the coherence pass: rows -> summary under key
CohLevel(node, key, rows, acc, freq) ==
    IF rows = <<>> THEN Res(FALSE, FALSE, node, acc, freq)
    ELSE CohWrite(node, key, acc, freq, CohMeanSem(rows))

ComodMatrices(time_slices) ==
    [i \in 1..Len(NonReserved(time_slices)) |-> Unwrap2D(NonReserved(time_slices)[i].v)]

ComodMeanSemOf(ms, mean) ==
    IF AnyRaise2D(mean) THEN [raised |-> TRUE]
    ELSE [raised |-> FALSE, mean |-> mean,
          sem |-> IF Len(ms) > 1 THEN ScipySem2D(ms) ELSE ZerosLike2D(mean)]

ComodMeanSem(ms) == ComodMeanSemOf(ms, NpMean2D(ms))

ComodSummary(r) == PyDict(<<Entry("mean", ToList2D(r.mean)), Entry("sem", ToList2D(r.sem))>>)

ComodWrite(node, key, acc, freq, r) ==
    IF r.raised THEN Res(TRUE, FALSE, node, acc, freq)
    ELSE Res(FALSE, TRUE, Put(node, key, ComodSummary(r)), Append(acc, PacItem(r)), freq)

\* one level of the comodulogram pass: matrices -> summary under key
ComodLevel(node, key, ms, acc, freq) ==
    IF ms = <<>> THEN Res(FALSE, FALSE, node, acc, freq)
    ELSE ComodWrite(node, key, acc, freq, ComodMeanSem(ms))

-----------------------------------------------------------------------------
(* _clean_nans and calculate_hierarchical_means *)

RECURSIVE CleanTopLevel(_)
\* a variant that does not descend into lists and arrays (mutation of C7)
CleanTopLevel(value) ==
    IF IsDict(value)
    THEN PyDict([i \in 1..Len(value.e) |-> Entry(value.e[i].k, CleanTopLevel(value.e[i].v))])
    ELSE IF IsNaN(value) THEN None
    ELSE value

\* _clean_nans(value): np.float64 is a float, an ndarray goes through tolist()
RECURSIVE CleanNans(_)
CleanNans(value) ==
    IF IsDict(value)
    THEN PyDict([i \in 1..Len(value.e) |-> Entry(value.e[i].k, CleanNans(value.e[i].v))])
    ELSE IF IsList(value) THEN PyList([i \in 1..Len(value.e) |-> CleanNans(value.e[i])])
    ELSE IF IsNaN(value) THEN None
    ELSE IF IsArr(value) THEN CleanNans(ToList(value.e))
    ELSE value

\* the order in which calculate_hierarchical_means runs the family passes
FamilyOrder == <<"pac_results", "psd_results", "coh_results", "comod_results">>

\* the next family after position k whose key is in all_results (Len + 1: none)
RECURSIVE NextFam(_, _)
NextFam(d, k) ==
    IF k + 1 > Len(FamilyOrder) THEN k + 1
    ELSE IF Has(d, FamilyOrder[k + 1]) THEN k + 1
    ELSE NextFam(d, k + 1)

\* the empty all_channel_* / all_file_* accumulator of a family pass
EmptyAcc(f) == IF f = "pac_results" THEN PyDict(<<>>) ELSE <<>>

\* a variant that walks a file's mean_across_channels as a channel (mutation of C22)
SkippedButChannelMean(en) ==
    en.k \in (AGGREGATION_KEYS \ {"mean_across_channels"}) \/ ~IsDict(en.v)

\* 'if name in AGGREGATION_KEYS or not isinstance(value, dict): continue'
Skipped(en) == en.k \in AGGREGATION_KEYS \/ ~IsDict(en.v)

\* the body of the channel / pair loop of family f on one entry's value
ChannelLevel(f, node, acc, freq) ==
    CASE f = "pac_results" -> PacChannel(node, acc, freq)
      [] f = "psd_results" -> PsdChannel(node, acc, freq)
      [] f = "coh_results" -> CohLevel(node, "mean_across_time", CohMeansList(node), acc, freq)
      [] f = "comod_results" ->
            ComodLevel(node, "mean_across_time", ComodMatrices(node), acc, freq)

\* what follows the channel loop of one file
FileLevel(f, node, chan_acc, file_acc, freq) ==
    CASE f = "pac_results" -> PacFile(node, chan_acc, file_acc, freq)
      [] f = "psd_results" -> PsdFile(node, chan_acc, file_acc, freq)
      [] f = "coh_results" ->
            CohLevel(node, "mean_across_pairs", Means(chan_acc), file_acc, freq)
      [] f = "comod_results" ->
            ComodLevel(node, "mean_across_channels", Means(chan_acc), file_acc, freq)

\* what follows the file loop
GrandLevel(f, node, file_acc, freq) ==
    CASE f = "pac_results" -> PacGrand(node, file_acc, freq)
      [] f = "psd_results" -> PsdGrand(node, file_acc, freq)
      [] f = "coh_results" -> CohLevel(node, "grand_mean", Means(file_acc), <<>>, freq)
      [] f = "comod_results" -> ComodLevel(node, "grand_mean", Means(file_acc), <<>>, freq)

\* the name of the summary key a level of family f writes
FileKey(f) == IF f = "coh_results" THEN "mean_across_pairs" ELSE "mean_across_channels"
\* the channel / pair loop of one file, from entry i on
RECURSIVE ChannelsFrom(_, _, _, _, _)
ChannelsNext(f, channels, i, r) ==
    IF r.raised THEN Res(TRUE, FALSE, Put(channels, channels.e[i].k, r.node), r.acc, r.freq)
    ELSE ChannelsFrom(f, Put(channels, channels.e[i].k, r.node), r.acc, r.freq, i + 1)

ChannelsFrom(f, channels, acc, freq, i) ==
    IF i > Len(channels.e) THEN Res(FALSE, FALSE, channels, acc, freq)
    ELSE IF Skipped(channels.e[i]) THEN ChannelsFrom(f, channels, acc, freq, i + 1)
    ELSE ChannelsNext(f, channels, i, ChannelLevel(f, channels.e[i].v, acc, freq))

FileAfter(f, file_acc, rc) ==
    IF rc.raised THEN Res(TRUE, FALSE, rc.node, file_acc, rc.freq)
    ELSE FileLevel(f, rc.node, rc.acc, file_acc, rc.freq)

\* the body of the file loop for one file
FileBody(f, channels, file_acc, freq) ==
    FileAfter(f, file_acc, ChannelsFrom(f, channels, EmptyAcc(f), freq, 1))

\* the file loop from entry i on, then the grand mean
RECURSIVE FilesFrom(_, _, _, _, _)
FilesNext(f, tree, i, r) ==
    IF r.raised THEN Res(TRUE, FALSE, Put(tree, tree.e[i].k, r.node), r.acc, r.freq)
    ELSE FilesFrom(f, Put(tree, tree.e[i].k, r.node), r.acc, r.freq, i + 1)

FilesFrom(f, tree, file_acc, freq, i) ==
    IF i > Len(tree.e) THEN GrandLevel(f, tree, file_acc, freq)
    ELSE IF Skipped(tree.e[i]) THEN FilesFrom(f, tree, file_acc, freq, i + 1)
    ELSE FilesNext(f, tree, i, FileBody(f, tree.e[i].v, file_acc, freq))

\* _process_pac_results / _psd_ / _coh_ / _comod_ run to their end on one tree
ProcessResults(f, tree) == FilesFrom(f, tree, EmptyAcc(f), None, 1)

-----------------------------------------------------------------------------
(* Consumers that walk a result tree: the export flattener of PSD band      *)
(* power and the band listing of the PAC plots                              *)

RECURSIVE Concat(_)
Concat(ss) == IF ss = <<>> THEN <<>> ELSE Head(ss) \o Concat(Tail(ss))

\* the bands of band_labels that the trees of the model carry
band_labels ==
    SubSeq(<<"Delta", "Theta", "Alpha", "Beta", "Low Gamma", "High Gamma">>, 1, NBands)

\* the rows.append(...) loop over the bands of one time slice
FlattenPsdSlice(file_name, channel_name, en) ==
    IF en.k \in AGGREGATION_KEYS \/ ~IsDict(en.v) THEN <<>>
    ELSE IF ~Has(en.v, "band_power") THEN <<>>
    ELSE [i \in 1..Len(band_labels) |->
            [File |-> file_name, Channel |-> channel_name, Time_Slice |-> en.k,
             Band |-> band_labels[i],
             Mean_Power |-> Get(Get(en.v, "band_power"), "means").e[i],
             SEM_Power |-> Get(Get(en.v, "band_power"), "errors").e[i]]]

FlattenPsdChannel(file_name, ce) ==
    IF Skipped(ce) THEN <<>>
    ELSE Concat([s \in 1..Len(ce.v.e) |-> FlattenPsdSlice(file_name, ce.k, ce.v.e[s])])

FlattenPsdFile(fe) ==
    IF Skipped(fe) THEN <<>>
    ELSE Concat([c \in 1..Len(fe.v.e) |-> FlattenPsdChannel(fe.k, fe.v.e[c])])

\* export_utils._flatten_psd_results(psd_data)
FlattenPsdResults(psd_data) ==
    Concat([f \in 1..Len(psd_data.e) |-> FlattenPsdFile(psd_data.e[f])])

\* the keys of the dict values of one value of pac_results, reserved keys left out
BandsUnder(file) ==
    IF ~IsDict(file) THEN {}
    ELSE UNION {IF IsDict(file.e[c].v) THEN KeySet(file.e[c].v) \ AGGREGATION_KEYS ELSE {} :
                   c \in 1..Len(file.e)}

\* all_bands of plot_PAC: the keys of every dict found two levels down
AllBands(pac_results) ==
    UNION {BandsUnder(pac_results.e[f].v) : f \in 1..Len(pac_results.e)}

\* a tree built from the rows of the PSD band sheet: file -> channel ->
\* time slice -> band_power, the bands in row order
EmptyBandPower ==
    PyDict(<<Entry("band_power",
                   PyDict(<<Entry("means", PyList(<<>>)), Entry("errors", PyList(<<>>))>>))>>)

GetOr(d, k, default) == IF Has(d, k) THEN Get(d, k) ELSE default

AppendBand(leaf, row) ==
    PyDict(<<Entry("band_power",
                   PyDict(<<Entry("means",
                                  PyList(Append(Get(Get(leaf, "band_power"), "means").e,
                                                row.Mean_Power))),
                            Entry("errors",
                                  PyList(Append(Get(Get(leaf, "band_power"), "errors").e,
                                                row.SEM_Power)))>>))>>)

AddRowToChannel(chan, row) ==
    Put(chan, row.Time_Slice, AppendBand(GetOr(chan, row.Time_Slice, EmptyBandPower), row))

AddRowToFile(file, row) ==
    Put(file, row.Channel, AddRowToChannel(GetOr(file, row.Channel, PyDict(<<>>)), row))

AddRow(tree, row) ==
    Put(tree, row.File, AddRowToFile(GetOr(tree, row.File, PyDict(<<>>)), row))

RECURSIVE RebuildFrom(_, _, _)
RebuildFrom(rows, i, tree) ==
    IF i > Len(rows) THEN tree ELSE RebuildFrom(rows, i + 1, AddRow(tree, rows[i]))

RebuildPsdTree(rows) == RebuildFrom(rows, 1, PyDict(<<>>))

-----------------------------------------------------------------------------
(* Result trees handed to the pass.  The numbers in the leaves come from    *)
(* signal processing the model does not follow; they are drawn from small   *)
(* tables.                                                                  *)

FileNames == <<"rat1.mat", "rat2.mat", "rat3.mat">>
ChannelNames == <<"Ch1", "Ch2", "Ch3">>
StdLabels == <<"0.0-10.0s", "10.0-40.0s", "40.0-80.0s", "80.0-100.0s">>
OddLabels == <<"-5.0-10.0s", "0.5-3.5s", "4.0-8.0s", "8.0-16.0s">>
PacBandNames == <<"Phase_4-8_Amp_30-80", "Phase_8-12_Amp_30-80", "Phase_4-8_Amp_80-120">>
LeafTable == <<Int2F(1), Int2F(3), Int2F(2), Int2F(5)>>
Freqs == PyList([b \in 1..NBins |-> Int2F(b)])

Shapes ==
    [nF : 1..MaxFiles, nC : 1..MaxChans, nS : 1..MaxSlices,
     hole : {"none", "empty_file", "empty_chan"},
     lab : {"std", "odd"},
     vpat : {"same", "byslice", "bychan", "byfile"},
     variant : {"plain", "nan", "no_full_psd", "no_band", "sliding"},
     present : {"none", "all"} \cup {FamilyOrder[k] : k \in 1..Len(FamilyOrder)}]

\* the inputs the model explores
Inputs ==
    {inp \in Shapes :
        /\ inp.variant # "plain" => inp.vpat = "byslice" /\ inp.hole = "none" /\ inp.lab = "std"
        /\ inp.hole # "none" => inp.vpat = "byslice"
        /\ inp.present = "none" => inp.nF = 1 /\ inp.nC = 1 /\ inp.nS = 1 /\ inp.variant = "plain"
                                   /\ inp.hole = "none" /\ inp.vpat = "same" /\ inp.lab = "std"}

NChans(inp, f) == IF inp.hole = "empty_file" /\ f = inp.nF THEN 0 ELSE inp.nC
NSlices(inp, f, c) == IF inp.hole = "empty_chan" /\ f = 1 /\ c = inp.nC THEN 0 ELSE inp.nS
Labels(inp) == IF inp.lab = "std" THEN StdLabels ELSE OddLabels

LeafVal(inp, f, c, s) ==
    CASE inp.vpat = "same" -> LeafTable[1]
      [] inp.vpat = "byslice" -> LeafTable[s]
      [] inp.vpat = "bychan" -> LeafTable[c]
      [] inp.vpat = "byfile" -> LeafTable[f]

\* the leaf the variants damage
Marked(inp, v, f, c, s) == inp.variant = v /\ f = 1 /\ c = 1 /\ s = 1

VecLeaf(inp, f, c, s, n, off) ==
    [j \in 1..n |-> IF Marked(inp, "nan", f, c, s) /\ j = 1 THEN NaN
                    ELSE FAdd(LeafVal(inp, f, c, s), Int2F(j - 1 + off))]

ErrLeaf(inp, f, c, s) ==
    [j \in 1..NBands |-> IF Marked(inp, "nan", f, c, s) /\ j = 1 THEN NaN ELSE Int2F(s)]

\* {'band_power': band_power, 'full_psd': full_psd} of run_psd_analysis
PsdLeaf(inp, f, c, s) ==
    LET bp == Entry("band_power",
                    PyDict(<<Entry("means", PyList(VecLeaf(inp, f, c, s, NBands, 0))),
                             Entry("errors", PyList(ErrLeaf(inp, f, c, s)))>>))
        fp == Entry("full_psd",
                    PyDict(<<Entry("power", PyList(VecLeaf(inp, f, c, s, NBins, 1))),
                             Entry("frequencies", Freqs)>>))
    IN PyDict(IF Marked(inp, "no_full_psd", f, c, s) THEN <<bp>>
              ELSE IF Marked(inp, "no_band", f, c, s) THEN <<fp>>
              ELSE <<bp, fp>>)

\* {'band_coherence': {'means': ..., 'errors': ...}} of run_coherence_analysis
CohLeaf(inp, f, c, s) ==
    IF Marked(inp, "no_band", f, c, s) \/ Marked(inp, "no_full_psd", f, c, s) THEN PyDict(<<>>)
    ELSE PyDict(<<Entry("band_coherence",
                        PyDict(<<Entry("means", PyList(VecLeaf(inp, f, c, s, NBands, 0))),
                                 Entry("errors", PyList(ErrLeaf(inp, f, c, s)))>>))>>)

\* the comodulogram matrix of one slice
ComodLeaf(inp, f, c, s) ==
    PyList([r \in 1..NBands |-> PyList(VecLeaf(inp, f, c, s, NBins, r))])

\* scalar_results of calculate_pac_metrics for band b
PacLeaf(inp, f, c, s, b) ==
    LET v == FAdd(LeafVal(inp, f, c, s), Int2F(b - 1))
    IN PyDict(<<Entry("MI", IF Marked(inp, "nan", f, c, s) THEN NaN ELSE v),
                Entry("MVL", FDivInt(v, 2)),
                Entry("PLV", Int2F(1))>>)

\* sliding_results of run_pac_analysis
PacSliding(inp, f, c, s, b) ==
    PyDict(<<Entry("MI", PyList(<<LeafVal(inp, f, c, s), NaN>>)),
             Entry("MVL", PyList(<<Int2F(1), Int2F(2)>>)),
             Entry("PLV", PyList(<<Int2F(1), Int2F(1)>>))>>)

SliceDict(inp, f, c, Leaf(_, _, _, _)) ==
    PyDict([s \in 1..NSlices(inp, f, c) |-> Entry(Labels(inp)[s], Leaf(inp, f, c, s))])

\* slice entries of one PAC band, each followed by its sliding entry when asked
PacSliceDict(inp, f, c, b) ==
    LET n == NSlices(inp, f, c)
        sliding == inp.variant = "sliding"
    IN PyDict([i \in 1..(IF sliding THEN 2 * n ELSE n) |->
                 IF ~sliding THEN Entry(StdLabels[i], PacLeaf(inp, f, c, i, b))
                 ELSE IF i % 2 = 1
                 THEN Entry(StdLabels[(i + 1) \div 2], PacLeaf(inp, f, c, (i + 1) \div 2, b))
                 ELSE Entry(SlidingLabel(StdLabels[i \div 2]), PacSliding(inp, f, c, i \div 2, b))])

PacBandDict(inp, f, c) ==
    PyDict([b \in 1..NBands |-> Entry(PacBandNames[b], PacSliceDict(inp, f, c, b))])

FamilyTree(inp, ChannelValue(_, _, _)) ==
    PyDict([f \in 1..inp.nF |->
              Entry(FileNames[f],
                    PyDict([c \in 1..NChans(inp, f) |->
                              Entry(ChannelNames[c], ChannelValue(inp, f, c))]))])

PsdSlices(inp, f, c) == SliceDict(inp, f, c, PsdLeaf)
CohSlices(inp, f, c) == SliceDict(inp, f, c, CohLeaf)
ComodSlices(inp, f, c) == SliceDict(inp, f, c, ComodLeaf)

PsdTree(inp) == FamilyTree(inp, PsdSlices)
PacTree(inp) == FamilyTree(inp, PacBandDict)
CohTree(inp) == FamilyTree(inp, CohSlices)
ComodTree(inp) == FamilyTree(inp, ComodSlices)

TreeOf(inp, f) ==
    CASE f = "pac_results" -> PacTree(inp)
      [] f = "psd_results" -> PsdTree(inp)
      [] f = "coh_results" -> CohTree(inp)
      [] f = "comod_results" -> ComodTree(inp)

\* the argument of a direct call of calculate_hierarchical_means
AllResults(inp) ==
    IF inp.present = "none" THEN PyDict(<<>>)
    ELSE IF inp.present = "all"
    THEN PyDict([k \in 1..Len(FamilyOrder) |-> Entry(FamilyOrder[k], TreeOf(inp, FamilyOrder[k]))])
    ELSE PyDict(<<Entry(inp.present, TreeOf(inp, inp.present))>>)
-----------------------------------------------------------------------------
(* calculate_hierarchical_means as a state machine: one step per iteration   *)
(* of the channel loop, per file and per family                              *)

PyFalse == [t |-> "bool", b |-> FALSE]
Figures == [t |-> "figures"]

\* the keys app.py creates at the top of every script run (set to False if absent)
SessionKeys ==
    <<"psd_results", "psd_figures", "pac_figures", "pac_results",
      "coh_figures", "coh_results", "comod_figures">>

InitialSession == PyDict([k \in 1..Len(SessionKeys) |-> Entry(SessionKeys[k], PyFalse)])

Family == FamilyOrder[fam]
Tree == Get(all_results, Family)

\* a pass mutates its tree in place: the caller's dict and, in app.py, the
\* session entry are the same object
WriteTree(t) ==
    /\ all_results' = Put(all_results, Family, t)
    /\ session' = IF run.mode = "app" THEN Put(session, Family, t) ELSE session

Written(key, file, chan) == [fam |-> Family, key |-> key, file |-> file, chan |-> chan]

\* entry of calculate_hierarchical_means: go to the first family present
Begin ==
    /\ pc = "call"
    /\ fam' = NextFam(all_results, 0)
    /\ pc' = IF fam' > Len(FamilyOrder) THEN "clean" ELSE "pass"
    /\ fi' = 1 /\ ci' = 1
    /\ chanAcc' = IF fam' > Len(FamilyOrder) THEN <<>> ELSE EmptyAcc(FamilyOrder[fam'])
    /\ fileAcc' = chanAcc'
    /\ frequencies' = None
    /\ writes' = <<>>
    /\ UNCHANGED <<all_results, results, session, run>>

\* the writes of one iteration of the channel / pair loop
ChannelWrite(fe, ce, r) ==
    /\ WriteTree(Put(Tree, fe.k, Put(fe.v, ce.k, r.node)))
    /\ pc' = IF r.raised THEN "raised" ELSE "pass"
    /\ chanAcc' = r.acc
    /\ frequencies' = r.freq
    /\ writes' = IF r.added THEN Append(writes, Written("mean_across_time", fe.k, ce.k))
                 ELSE writes

\* one iteration of the channel / pair loop of the current file
ChannelStep ==
    /\ pc = "pass"
    /\ fi <= Len(Tree.e)
    /\ ~Skipped(Tree.e[fi])
    /\ ci <= Len(Tree.e[fi].v.e)
    /\ IF Skipped(Tree.e[fi].v.e[ci])
       THEN UNCHANGED <<all_results, session, pc, chanAcc, frequencies, writes>>
       ELSE ChannelWrite(Tree.e[fi], Tree.e[fi].v.e[ci],
                         ChannelLevel(Family, Tree.e[fi].v.e[ci].v, chanAcc, frequencies))
    /\ ci' = ci + 1
    /\ UNCHANGED <<results, fam, fi, fileAcc, run>>

\* the writes that end one iteration of the file loop
FileWrite(fe, r) ==
    /\ WriteTree(Put(Tree, fe.k, r.node))
    /\ pc' = IF r.raised THEN "raised" ELSE "pass"
    /\ fileAcc' = r.acc
    /\ writes' = IF r.added THEN Append(writes, Written(FileKey(Family), fe.k, ""))
                 ELSE writes

\* the end of one iteration of the file loop: the file's own aggregate
FileStep ==
    /\ pc = "pass"
    /\ fi <= Len(Tree.e)
    /\ Skipped(Tree.e[fi]) \/ ci > Len(Tree.e[fi].v.e)
    /\ IF Skipped(Tree.e[fi])
       THEN UNCHANGED <<all_results, session, pc, fileAcc, writes>>
       ELSE FileWrite(Tree.e[fi],
                      FileLevel(Family, Tree.e[fi].v, chanAcc, fileAcc, frequencies))
    /\ fi' = fi + 1
    /\ ci' = 1
    /\ chanAcc' = EmptyAcc(Family)
    /\ UNCHANGED <<results, fam, frequencies, run>>

\* the writes after the file loop, and the move to the next family or to _clean_nans
GrandWrite(r, nxt) ==
    /\ WriteTree(r.node)
    /\ writes' = IF r.added THEN Append(writes, Written("grand_mean", "", "")) ELSE writes
    /\ IF r.raised
       THEN /\ pc' = "raised"
            /\ UNCHANGED <<fam, fi, ci, chanAcc, fileAcc, frequencies>>
       ELSE /\ pc' = IF nxt > Len(FamilyOrder) THEN "clean" ELSE "pass"
            /\ fam' = nxt
            /\ fi' = 1 /\ ci' = 1
            /\ chanAcc' = IF nxt > Len(FamilyOrder) THEN <<>> ELSE EmptyAcc(FamilyOrder[nxt])
            /\ fileAcc' = chanAcc'
            /\ frequencies' = None

\* after the file loop: the grand mean of the family
GrandStep ==
    /\ pc = "pass"
    /\ fi > Len(Tree.e)
    /\ GrandWrite(GrandLevel(Family, Tree, fileAcc, frequencies), NextFam(all_results, fam))
    /\ UNCHANGED <<results, run>>

\* return _clean_nans(all_results)
CleanStep ==
    /\ pc = "clean"
    /\ results' = CleanNans(all_results)
    /\ pc' = "returned"
    /\ UNCHANGED <<all_results, fam, fi, ci, chanAcc, fileAcc, frequencies, writes, session, run>>

\* a direct call of calculate_hierarchical_means on one of the inputs
Init ==
    \E inp \in Inputs :
        /\ all_results = AllResults(inp)
        /\ run = [mode |-> "direct", inp |-> inp]
        /\ results = None
        /\ pc = "call"
        /\ fam = 0 /\ fi = 1 /\ ci = 1
        /\ chanAcc = <<>> /\ fileAcc = <<>>
        /\ frequencies = None
        /\ writes = <<>>
        /\ session = InitialSession

Next == Begin \/ ChannelStep \/ FileStep \/ GrandStep \/ CleanStep

Spec == Init /\ [][Next]_vars
-----------------------------------------------------------------------------
(* One script run of app.py after another: the analysis blocks, the merge,   *)
(* the pass, and the rerun Streamlit makes on the next interaction           *)

\* what the user has configured: st.session_state.selections and the files
AppSelections ==
    {inp \in Shapes :
        /\ inp.present = "all" /\ inp.lab = "std" /\ inp.vpat = "byslice"
        /\ inp.variant \in {"plain", "nan", "sliding"}
        /\ \/ inp.nF = 1 /\ inp.nC = 1 /\ inp.nS = 1 /\ inp.hole = "none" /\ inp.variant = "plain"
           \/ inp.nF = MaxFiles /\ inp.nC = MaxChans /\ inp.nS = 1 /\ inp.hole = "empty_file"
              /\ inp.variant = "plain"
           \/ inp.nF = 1 /\ inp.nC = MaxChans /\ inp.nS = MaxSlices /\ inp.hole = "none"}

\* the widgets of one script run
Widgets == [start_button : BOOLEAN, choosed : BOOLEAN, PAC_calc_state : BOOLEAN,
            calculate_coherence : BOOLEAN, comudolo_state : BOOLEAN]

\* a variant in which the merge and the pass follow the PSD block at once
\* (mutation of C6)
PassAfterPsd(p) ==
    CASE p = "script" -> "psd_block"
      [] p = "psd_block" -> "merge"
      [] p = "pac_block" -> "coh_block"
      [] p = "coh_block" -> "comod_block"
      [] p = "comod_block" -> "merge"
      [] p = "merge" -> "call"

\* the order of the blocks of the script
NextBlock(p) ==
    CASE p = "script" -> "psd_block"
      [] p = "psd_block" -> "pac_block"
      [] p = "pac_block" -> "coh_block"
      [] p = "coh_block" -> "comod_block"
      [] p = "comod_block" -> "merge"
      [] p = "merge" -> "call"

\* key.endswith("_results") on the keys the session can hold
EndsWithResults(key) ==
    CASE key \in {"psd_results", "pac_results", "coh_results"} -> TRUE
      [] key \in {"psd_figures", "pac_figures", "coh_figures", "comod_figures"} -> FALSE

IsMerged(en) == EndsWithResults(en.k) /\ IsDict(en.v)

\* utils.merge_results_from_session()
MergeResultsFromSession(state) == PyDict(SelectSeq(state.e, IsMerged))

\* utils.set_calculated_values_in_session_state(): the on_change callback
ResetValues ==
    /\ pc = "script"
    /\ session # InitialSession \/ results # PyFalse
    /\ session' = InitialSession
    /\ results' = PyFalse
    /\ UNCHANGED <<all_results, pc, fam, fi, ci, chanAcc, fileAcc, frequencies, writes, run>>

\* the top of the script: the widgets take their values for this run
ScriptStart ==
    /\ pc = "script"
    /\ \E w \in Widgets :
          run' = [mode |-> "app", inp |-> run.inp, w |-> w, stored |-> {}]
    /\ pc' = NextBlock(pc)
    /\ UNCHANGED <<all_results, results, fam, fi, ci, chanAcc, fileAcc, frequencies, writes,
                   session>>

\* a block that ran stores its tree and its figures; one that did not stores nothing
Block(ran, keys, tree) ==
    /\ session' = IF ran
                  THEN Put(Put(session, keys[1], tree), keys[2], Figures)
                  ELSE session
    /\ run' = IF ran THEN [run EXCEPT !.stored = @ \cup {keys[1]}] ELSE run
    /\ pc' = NextBlock(pc)
    /\ UNCHANGED <<all_results, results, fam, fi, ci, chanAcc, fileAcc, frequencies, writes>>

\* PSD.run_psd_analysis and the two stores after it
PsdBlock ==
    /\ pc = "psd_block"
    /\ Block(run.w.start_button /\ run.w.choosed,
             <<"psd_results", "psd_figures">>, PsdTree(run.inp))

\* PAC.run_pac_analysis and the two stores after it
PacBlock ==
    /\ pc = "pac_block"
    /\ Block(run.w.choosed /\ run.w.PAC_calc_state /\ run.w.start_button,
             <<"pac_results", "pac_figures">>, PacTree(run.inp))

\* coherence.run_coherence_analysis and the two stores after it
CohBlock ==
    /\ pc = "coh_block"
    /\ Block(run.w.choosed /\ run.w.PAC_calc_state /\ run.w.start_button
                /\ run.w.calculate_coherence,
             <<"coh_results", "coh_figures">>, CohTree(run.inp))

\* Comudologram.run_comodulogram_analysis: only the figures are stored
ComodBlock ==
    /\ pc = "comod_block"
    /\ Block(run.w.choosed /\ run.w.PAC_calc_state /\ run.w.comudolo_state
                /\ run.w.start_button,
             <<"comod_figures", "comod_figures">>, Figures)

\* merged_results = utils.merge_results_from_session()
Merge ==
    /\ pc = "merge"
    /\ all_results' = MergeResultsFromSession(session)
    /\ pc' = NextBlock(pc)
    /\ UNCHANGED <<results, fam, fi, ci, chanAcc, fileAcc, frequencies, writes, session, run>>

\* the script run is over; the next interaction starts another one
Rerun ==
    /\ pc = "returned"
    /\ run.mode = "app"
    /\ pc' = "script"
    /\ UNCHANGED <<all_results, results, fam, fi, ci, chanAcc, fileAcc, frequencies, writes,
                   session, run>>

InitApp ==
    \E inp \in AppSelections :
        /\ all_results = PyDict(<<>>)
        /\ run = [mode |-> "app", inp |-> inp,
                  w |-> [start_button |-> FALSE, choosed |-> FALSE, PAC_calc_state |-> FALSE,
                         calculate_coherence |-> FALSE, comudolo_state |-> FALSE],
                  stored |-> {}]
        /\ results = PyFalse
        /\ pc = "script"
        /\ fam = 0 /\ fi = 1 /\ ci = 1
        /\ chanAcc = <<>> /\ fileAcc = <<>>
        /\ frequencies = None
        /\ writes = <<>>
        /\ session = InitialSession

NextApp ==
    \/ ResetValues \/ ScriptStart \/ PsdBlock \/ PacBlock \/ CohBlock \/ ComodBlock \/ Merge
    \/ Begin \/ ChannelStep \/ FileStep \/ GrandStep \/ CleanStep \/ Rerun

SpecApp == InitApp /\ [][NextApp]_vars
-----------------------------------------------------------------------------
(* Reading a returned tree: groups, their children and their SEM parts      *)

RECURSIVE IsZeroVal(_)
IsZeroVal(x) ==
    IF IsNum(x) THEN x.n = 0
    ELSE IF IsList(x) \/ IsArr(x) THEN \A i \in 1..Len(x.e) : IsZeroVal(x.e[i])
    ELSE IF IsDict(x) THEN \A i \in 1..Len(x.e) : IsZeroVal(x.e[i].v)
    ELSE FALSE

\* the walked entries of d that carry the summary key
WithKey(d, key) == {i \in 1..Len(d.e) : ~Skipped(d.e[i]) /\ Has(d.e[i].v, key)}

\* the data children of a channel node that the level counts as usable
UsableIn(ch, Usable(_)) == {i \in 1..Len(ch.e) : IsDataEntry(ch.e[i]) /\ Usable(ch.e[i])}

\* the SEM parts of a summary of family f, in a fixed order
SemParts(f, s) ==
    CASE f = "psd_results" ->
            <<Get(Get(s, "band_power"), "errors"), Get(Get(s, "full_psd"), "sem_power")>>
      [] f = "coh_results" -> <<Get(s, "errors")>>
      [] f = "comod_results" -> <<Get(s, "sem")>>

\* (file, channel) index pairs of the channel nodes of t that have a summary
TimeGroups(t) ==
    UNION {{<<i, j>> : j \in WithKey(t.e[i].v, "mean_across_time")} :
              i \in {i \in 1..Len(t.e) : ~Skipped(t.e[i])}}

ChannelAt(t, fc) == t.e[fc[1]].v.e[fc[2]].v

\* a channel with exactly one usable child has an all-zero SEM part k
TimeSingletonsZero(f, k, Usable(_)) ==
    \A fc \in TimeGroups(Get(results, f)) :
        Cardinality(UsableIn(ChannelAt(Get(results, f), fc), Usable)) = 1
            => IsZeroVal(SemParts(f, Get(ChannelAt(Get(results, f), fc), "mean_across_time"))[k])

\* a channel with exactly one slice carries that slice's own band errors
PsdTimeSingletonsOwn ==
    \A fc \in TimeGroups(Get(results, "psd_results")) :
        \A i \in UsableIn(ChannelAt(Get(results, "psd_results"), fc), PsdHasBand) :
            UsableIn(ChannelAt(Get(results, "psd_results"), fc), PsdHasBand) = {i}
                => SemParts("psd_results",
                            Get(ChannelAt(Get(results, "psd_results"), fc), "mean_across_time"))[1]
                   = Get(Get(ChannelAt(Get(results, "psd_results"), fc).e[i].v, "band_power"),
                         "errors")

\* a file with exactly one summarised channel has all-zero SEM parts
FileSingletonsZero(f) ==
    \A i \in WithKey(Get(results, f), FileKey(f)) :
        Cardinality(WithKey(Get(results, f).e[i].v, "mean_across_time")) = 1
            => IsZeroVal(PyList(SemParts(f, Get(Get(results, f).e[i].v, FileKey(f)))))

GrandSingleton(f) ==
    Has(Get(results, f), "grand_mean") /\ Cardinality(WithKey(Get(results, f), FileKey(f))) = 1

GrandSingletonZero(f) ==
    GrandSingleton(f)
        => IsZeroVal(PyList(SemParts(f, Get(Get(results, f), "grand_mean"))))

\* with one file the grand SEM parts are that file's SEM parts
GrandSingletonIsFiles(f) ==
    GrandSingleton(f)
        => \A i \in WithKey(Get(results, f), FileKey(f)) :
              SemParts(f, Get(Get(results, f), "grand_mean"))
                  = SemParts(f, Get(Get(results, f).e[i].v, FileKey(f)))

\* PAC: (file, channel, band) index triples of the band nodes that have a summary
PacTimeGroups(t) ==
    UNION {{<<fc[1], fc[2], b>> : b \in WithKey(ChannelAt(t, fc), "mean_across_time")} :
              fc \in UNION {{<<i, j>> : j \in {j \in 1..Len(t.e[i].v.e) : ~Skipped(t.e[i].v.e[j])}} :
                               i \in {i \in 1..Len(t.e) : ~Skipped(t.e[i])}}}

PacBandAt(t, g) == t.e[g[1]].v.e[g[2]].v.e[g[3]].v

PacTimeSingletonsZero ==
    \A g \in PacTimeGroups(Get(results, "pac_results")) :
        Cardinality(UsableIn(PacBandAt(Get(results, "pac_results"), g), IsPacLeafEntry)) = 1
            => IsZeroVal(Get(Get(PacBandAt(Get(results, "pac_results"), g), "mean_across_time"),
                             "sems"))

\* the channels of a file that have a summary for band
PacChannelsWith(file, band) ==
    {j \in 1..Len(file.e) :
        /\ ~Skipped(file.e[j])
        /\ Has(file.e[j].v, band)
        /\ IsDict(Get(file.e[j].v, band))
        /\ Has(Get(file.e[j].v, band), "mean_across_time")}

PacFileSingletonsZero ==
    LET t == Get(results, "pac_results")
    IN \A i \in WithKey(t, "mean_across_channels") :
          LET mac == Get(t.e[i].v, "mean_across_channels")
          IN \A b \in 1..Len(mac.e) :
                Cardinality(PacChannelsWith(t.e[i].v, mac.e[b].k)) = 1
                    => IsZeroVal(Get(mac.e[b].v, "sems"))

\* the files that have a mean_across_channels summary for band
PacFilesWith(t, band) ==
    {i \in WithKey(t, "mean_across_channels") :
        Has(Get(t.e[i].v, "mean_across_channels"), band)}

PacGrandSingletonsZero ==
    LET t == Get(results, "pac_results")
    IN Has(t, "grand_mean")
         => \A b \in 1..Len(Get(t, "grand_mean").e) :
               Cardinality(PacFilesWith(t, Get(t, "grand_mean").e[b].k)) = 1
                   => IsZeroVal(Get(Get(t, "grand_mean").e[b].v, "sems"))

PacGrandSingletonsAreFiles ==
    LET t == Get(results, "pac_results")
    IN Has(t, "grand_mean")
         => \A b \in 1..Len(Get(t, "grand_mean").e) :
               \A i \in PacFilesWith(t, Get(t, "grand_mean").e[b].k) :
                   PacFilesWith(t, Get(t, "grand_mean").e[b].k) = {i}
                       => Get(Get(t, "grand_mean").e[b].v, "sems")
                          = Get(Get(Get(t.e[i].v, "mean_across_channels"),
                                    Get(t, "grand_mean").e[b].k), "sems")

\* the singleton groups whose SEM is zero in every family
SingletonsZeroWhereGuarded ==
    /\ Has(results, "psd_results")
          => /\ TimeSingletonsZero("psd_results", 2, PsdHasFull)
             /\ FileSingletonsZero("psd_results")
    /\ Has(results, "coh_results")
          => /\ TimeSingletonsZero("coh_results", 1, CohHasBand)
             /\ FileSingletonsZero("coh_results")
             /\ GrandSingletonZero("coh_results")
    /\ Has(results, "comod_results")
          => /\ TimeSingletonsZero("comod_results", 1, IsDataEntry)
             /\ FileSingletonsZero("comod_results")
             /\ GrandSingletonZero("comod_results")
    /\ Has(results, "pac_results") => PacTimeSingletonsZero /\ PacFileSingletonsZero

-----------------------------------------------------------------------------
\* the duration in seconds that a slice label states, 1 where the label does
\* not start with a plain number
LabelWeight(label) ==
    CASE label = "0.0-10.0s" -> 10
      [] label = "10.0-40.0s" -> 30
      [] label = "40.0-80.0s" -> 40
      [] label = "80.0-100.0s" -> 20
      [] label = "-5.0-10.0s" -> 1
      [] label = "0.5-3.5s" -> 3
      [] label = "4.0-8.0s" -> 4
      [] label = "8.0-16.0s" -> 8

\* the slices of a PSD channel node that carry band power
PsdKids(ch) == SelectSeq(NonReserved(ch), PsdHasBand)

KidWeights(kids) == [i \in 1..Len(kids) |-> LabelWeight(kids[i].k)]

\* mean * sum(w) = sum(w * m) for component j of the part of the kids
IsWeightedMean(mean, kids, part, field, j) ==
    (\A i \in 1..Len(kids) : IsNum(Get(Get(kids[i].v, part), field).e[j]))
        => FMul(mean.e[j], Int2F(SumSeq(KidWeights(kids))))
           = FSum([i \in 1..Len(kids) |->
                     FMul(Int2F(LabelWeight(kids[i].k)), Get(Get(kids[i].v, part), field).e[j])])

\* C2: the PSD mean_across_time of a channel, band power and full spectrum
\* alike, is sum(w_i * m_i) / sum(w_i) over its slices, w_i being the duration
\* end - start written in the slice label and 1 for a label that does not parse.
C2_WeightedTimeMean ==
    pc = "returned" /\ IsDict(results) /\ Has(results, "psd_results")
        => \A fc \in TimeGroups(Get(results, "psd_results")) :
              LET ch == ChannelAt(Get(results, "psd_results"), fc)
                  summary == Get(ch, "mean_across_time")
              IN /\ \A j \in 1..NBands :
                       IsWeightedMean(Get(Get(summary, "band_power"), "means"),
                                      PsdKids(ch), "band_power", "means", j)
                 /\ \A j \in 1..NBins :
                       IsWeightedMean(Get(Get(summary, "full_psd"), "mean_power"),
                                      PsdKids(ch), "full_psd", "power", j)

\* a returned channel of a 10 s and a 30 s slice with different band power m1,
\* m2: its mean is (10 m1 + 30 m2) / 40 and not (m1 + m2) / 2
C2_Witness ==
    /\ pc = "returned" /\ IsDict(results) /\ Has(results, "psd_results")
    /\ \E fc \in TimeGroups(Get(results, "psd_results")) :
          LET ch == ChannelAt(Get(results, "psd_results"), fc)
              kids == PsdKids(ch)
              m1 == Get(Get(kids[1].v, "band_power"), "means").e[1]
              m2 == Get(Get(kids[2].v, "band_power"), "means").e[1]
              mean == Get(Get(Get(ch, "mean_across_time"), "band_power"), "means").e[1]
          IN /\ Len(kids) = 2
             /\ kids[1].k = "0.0-10.0s" /\ kids[2].k = "10.0-40.0s"
             /\ IsNum(m1) /\ IsNum(m2) /\ m1 # m2
             /\ mean = FDivInt(FAdd(FMul(Int2F(10), m1), FMul(Int2F(30), m2)), 40)
             /\ mean # FDivInt(FAdd(m1, m2), 2)

-----------------------------------------------------------------------------
\* C3: no traversal treats a reserved key as a data child; here: the band
\* listing of the PAC plots, run on a returned PAC tree, lists only names of
\* frequency-band pairs.
C3_BandListingIsData ==
    pc = "returned" /\ IsDict(results) /\ Has(results, "pac_results")
        => AllBands(Get(results, "pac_results")) \subseteq {PacBandNames[b] : b \in 1..NBands}

\* C4: calculate_hierarchical_means never raises for missing data (an empty
\* file, an empty channel, a leaf without band_power, full_psd or
\* band_coherence).
C4_NeverRaises == pc # "raised"

\* the components of the children of a channel node that are NaN
NaNComponents(kids, part) ==
    {j \in 1..NBands : \E i \in 1..Len(kids) : IsNaN(Get(Get(kids[i].v, part), "means").e[j])}

\* C8: the SEM of a group is computed over the same children as its mean, so
\* where a child is NaN the mean and the SEM are both NaN; here: the time
\* slices of a coherence pair with at least two slices, before _clean_nans.
C8_NaNPropagates ==
    pc = "returned" /\ Has(all_results, "coh_results")
        => \A fc \in TimeGroups(Get(all_results, "coh_results")) :
              LET ch == ChannelAt(Get(all_results, "coh_results"), fc)
              IN \A j \in NaNComponents(SelectSeq(ch.e, CohHasBand), "band_coherence") :
                    Len(SelectSeq(ch.e, CohHasBand)) >= 2 =>
                    /\ IsNaN(Get(Get(ch, "mean_across_time"), "means").e[j])
                    /\ IsNaN(Get(Get(ch, "mean_across_time"), "errors").e[j])

\* the band means of the grand mean of a PSD tree
GrandBandMeans(t) == Get(Get(Get(t, "grand_mean"), "band_power"), "means")

\* the PSD pass run again on the tree rebuilt from the band rows of its result
Reaggregated(t) == ProcessResults("psd_results", RebuildPsdTree(FlattenPsdResults(t)))

\* C10: flattening a returned PSD tree to rows, rebuilding a tree from the
\* rows and aggregating it again gives the same grand mean.
C10_RoundTrip ==
    (/\ pc = "returned" /\ IsDict(results) /\ Has(results, "psd_results")
     /\ Has(Get(results, "psd_results"), "grand_mean"))
        => /\ ~Reaggregated(Get(results, "psd_results")).raised
           /\ Has(Reaggregated(Get(results, "psd_results")).node, "grand_mean")
           /\ GrandBandMeans(Reaggregated(Get(results, "psd_results")).node)
                 = GrandBandMeans(Get(results, "psd_results"))

-----------------------------------------------------------------------------
\* err is the square of sqrt(sum of the children's squared SEMs) / n
IsQuadrature(err, es) ==
    IsNum(err) /\ FMul(err, Int2F(Len(es) * Len(es))) = FSum(es)

\* err is the square of the sample SEM (ddof = 1) of the values xs, n >= 2:
\* err * n^2 * (n - 1) = n * sum(x^2) - sum(x)^2
IsSampleSem(err, xs) ==
    /\ IsNum(err)
    /\ FMul(err, Int2F(Len(xs) * Len(xs) * (Len(xs) - 1)))
          = FSub(FMul(Int2F(Len(xs)), FSum([i \in 1..Len(xs) |-> FMul(xs[i], xs[i])])),
                 FMul(FSum(xs), FSum(xs)))

AllNum(xs) == \A i \in 1..Len(xs) : IsNum(xs[i])

HasTimeSummary(en) == ~Skipped(en) /\ Has(en.v, "mean_across_time")
HasChannelSummary(en) == ~Skipped(en) /\ Has(en.v, "mean_across_channels")

\* component j of the band means / errors of the summaries under key of the
\* children of node that have one
BandMeansOf(node, HasSummary(_), key, j) ==
    [i \in 1..Len(SelectSeq(node.e, HasSummary)) |->
        Get(Get(Get(SelectSeq(node.e, HasSummary)[i].v, key), "band_power"), "means").e[j]]

BandErrors(summary) == Get(Get(summary, "band_power"), "errors")

\* time -> channel: quadrature of the slices' own errors
PsdTimeQuadrature ==
    \A fc \in TimeGroups(Get(results, "psd_results")) :
        LET ch == ChannelAt(Get(results, "psd_results"), fc)
            kids == PsdKids(ch)
        IN \A j \in 1..NBands :
              LET es == [i \in 1..Len(kids) |-> Get(Get(kids[i].v, "band_power"), "errors").e[j]]
              IN AllNum(es) => IsQuadrature(BandErrors(Get(ch, "mean_across_time")).e[j], es)

\* channel -> file: sample SEM of the channel means, 0 for one channel
PsdFileSample ==
    \A i \in WithKey(Get(results, "psd_results"), "mean_across_channels") :
        LET file == Get(results, "psd_results").e[i].v
        IN \A j \in 1..NBands :
              LET xs == BandMeansOf(file, HasTimeSummary, "mean_across_time", j)
                  err == BandErrors(Get(file, "mean_across_channels")).e[j]
              IN AllNum(xs) => IF Len(xs) >= 2 THEN IsSampleSem(err, xs) ELSE IsZeroVal(err)

\* file -> grand over at least two files: sample SEM of the file means
PsdGrandSample ==
    Has(Get(results, "psd_results"), "grand_mean")
        => \A j \in 1..NBands :
              LET xs == BandMeansOf(Get(results, "psd_results"), HasChannelSummary,
                                    "mean_across_channels", j)
                  err == BandErrors(Get(Get(results, "psd_results"), "grand_mean")).e[j]
              IN AllNum(xs) /\ Len(xs) >= 2 => IsSampleSem(err, xs)

-----------------------------------------------------------------------------
RECURSIVE ContainsNaN(_)
ContainsNaN(x) ==
    IF IsNaN(x) THEN TRUE
    ELSE IF IsDict(x) THEN \E i \in 1..Len(x.e) : ContainsNaN(x.e[i].v)
    ELSE IF IsList(x) \/ IsArr(x) THEN \E i \in 1..Len(x.e) : ContainsNaN(x.e[i])
    ELSE FALSE

\* C7: the tree returned by calculate_hierarchical_means contains no NaN, in
\* leaves, summaries, nested lists or arrays, whatever families are present.
C7_ReturnedWithoutNaN == pc = "returned" => ~ContainsNaN(results)

\* a call has returned whose tree held NaN in a leaf and in summaries
C7_Witness ==
    /\ pc = "returned" /\ run.mode = "direct"
    /\ ContainsNaN(AllResults(run.inp))
    /\ \E k \in 1..Len(all_results.e) :
          \E i \in WithKey(all_results.e[k].v, FileKey(all_results.e[k].k)) :
              ContainsNaN(Get(all_results.e[k].v.e[i].v, FileKey(all_results.e[k].k)))
    /\ ~ContainsNaN(results)

-----------------------------------------------------------------------------
\* positions of the script run from the call of the pass to its end; 'writes'
\* is the history of the pass in progress from its first step on
InPass == pc \in {"call", "pass", "clean", "returned", "raised"}

\* the blocks whose conditions held in this script run left their results
\* in the tree handed to the pass
StoredBeforePass ==
    /\ run.w.start_button /\ run.w.choosed => Has(all_results, "psd_results")
    /\ run.w.start_button /\ run.w.choosed /\ run.w.PAC_calc_state
          => Has(all_results, "pac_results")
    /\ run.w.start_button /\ run.w.choosed /\ run.w.PAC_calc_state /\ run.w.calculate_coherence
          => Has(all_results, "coh_results")

\* the data children the pass finds are those the orchestrators stored
LeavesOfOrchestrators ==
    \A k \in 1..Len(all_results.e) :
        LET t == all_results.e[k].v
            t0 == TreeOf(run.inp, all_results.e[k].k)
        IN /\ Keys(PyDict(NonReserved(t))) = Keys(t0)
           /\ \A i \in 1..Len(t0.e) :
                 Keys(PyDict(NonReserved(Get(t, t0.e[i].k)))) = Keys(t0.e[i].v)

IsTimeWrite(w) == w.key = "mean_across_time"
IsFileWrite(w) == w.key \in {"mean_across_channels", "mean_across_pairs"}
IsGrandWrite(w) == w.key = "grand_mean"

\* within the pass of a family the summaries are written bottom-up
WritesBottomUp ==
    \A i, j \in 1..Len(writes) :
        writes[i].fam = writes[j].fam =>
            /\ IsTimeWrite(writes[i]) /\ IsFileWrite(writes[j]) /\ writes[i].file = writes[j].file
                  => i < j
            /\ IsFileWrite(writes[i]) /\ IsGrandWrite(writes[j]) => i < j

\* when a file's summary has been written every channel of the file has its
\* own, and when the grand mean has been written every file with channels has
FileWriteComplete ==
    \A i \in 1..Len(writes) :
        LET t == Get(all_results, writes[i].fam)
        IN /\ IsFileWrite(writes[i])
                 => \A c \in 1..Len(Get(t, writes[i].file).e) :
                       LET ce == Get(t, writes[i].file).e[c]
                       IN ~Skipped(ce) =>
                             IF writes[i].fam = "pac_results"
                             THEN \A b \in 1..Len(ce.v.e) :
                                     ~Skipped(ce.v.e[b]) => Has(ce.v.e[b].v, "mean_across_time")
                             ELSE Has(ce.v, "mean_across_time")
           /\ IsGrandWrite(writes[i])
                 => \A f \in 1..Len(t.e) :
                       ~Skipped(t.e[f]) /\ NonReserved(t.e[f].v) # <<>>
                           => Has(t.e[f].v, FileKey(writes[i].fam))

\* C6: within a pass mean_across_time is written once the slices of its group
\* are there, mean_across_channels (mean_across_pairs) only after every
\* mean_across_time of that file, and grand_mean only after every file's
\* summary; in app.py the pass runs only after the PSD, PAC and coherence
\* blocks of the same script run have stored their results.
C6_WriteOrder ==
    /\ InPass => StoredBeforePass /\ LeavesOfOrchestrators
    /\ InPass /\ pc # "call" => WritesBottomUp /\ FileWriteComplete

\* a script run in which the three blocks ran and the pass has written the
\* grand mean of every family
C6_Witness ==
    /\ pc = "returned"
    /\ run.w.start_button /\ run.w.choosed /\ run.w.PAC_calc_state /\ run.w.calculate_coherence
    /\ \A f \in {"psd_results", "pac_results", "coh_results"} :
          /\ \E i \in 1..Len(writes) : IsGrandWrite(writes[i]) /\ writes[i].fam = f
          /\ \E i \in 1..Len(writes) : IsFileWrite(writes[i]) /\ writes[i].fam = f
          /\ \E i \in 1..Len(writes) : IsTimeWrite(writes[i]) /\ writes[i].fam = f

-----------------------------------------------------------------------------
(* The PAC statistics in binary floating point.  np.mean and scipy's sem    *)
(* work on binary64 floats: every sum, difference, product and quotient is  *)
(* rounded to the nearest float, ties to the even significand.  The model   *)
(* keeps the rule and shortens the significand from 53 to Precision bits;   *)
(* exponents are unbounded.                                                 *)

Precision == 4
MaxGroup == 3

RECURSIVE Pow2(_)
Pow2(k) == IF k = 0 THEN 1 ELSE 2 * Pow2(k - 1)

\* the float nearest to (n / d) * (up / down), for n, d > 0: scale n / d into
\* [2^(Precision-1), 2^Precision), round it to an integer, scale back
RECURSIVE FlNorm(_, _, _, _)
FlNorm(n, d, up, down) ==
    IF n >= d * Pow2(Precision) THEN FlNorm(n, 2 * d, 2 * up, down)
    ELSE IF n < d * Pow2(Precision - 1) THEN FlNorm(2 * n, d, up, 2 * down)
    ELSE IF 2 * (n % d) > d \/ (2 * (n % d) = d /\ (n \div d) % 2 = 1)
    THEN Rat(((n \div d) + 1) * up, down)
    ELSE Rat((n \div d) * up, down)

\* rounding of the exact result of one floating-point operation
Fl(x) ==
    IF ~IsNum(x) THEN x
    ELSE IF x.n = 0 THEN Zero
    ELSE IF x.n > 0 THEN FlNorm(x.n, x.d, 1, 1)
    ELSE FNeg(FlNorm(-x.n, x.d, 1, 1))

\* np.add.reduce(v): the elements are added one after the other
RECURSIVE FlSum(_)
FlSum(v) ==
    IF Len(v) = 1 THEN v[1]
    ELSE Fl(FAdd(FlSum(SubSeq(v, 1, Len(v) - 1)), v[Len(v)]))

\* np.mean(v) of a list of floats
FlNpMean(v) ==
    IF HasNone(v) THEN Raise
    ELSE IF v = <<>> THEN NaN
    ELSE Fl(FDivInt(FlSum(v), Len(v)))

\* the squared deviations np.std sums: abs(x - mean) ** 2
FlSquares(w, mean) ==
    [i \in 1..Len(w) |-> Fl(FMul(Fl(FSub(w[i], mean)), Fl(FSub(w[i], mean))))]

\* sem(w) without NaN: std(ddof=1) / sqrt(n), as its square var / n; the
\* roots keep zero and nonzero apart
FlSemOf(w) ==
    IF Len(w) < 2 THEN NaN
    ELSE Fl(FDivInt(Fl(FDivInt(FlSum(FlSquares(w, FlNpMean(w))), Len(w) - 1)), Len(w)))

\* scipy.stats.sem(v, nan_policy='omit')
FlScipySem(v) == IF HasNone(v) THEN Raise ELSE FlSemOf(OmitNaN(v))

\* a variant without the guard on the number of children (mutation of C9)
FlSemUnguarded(dicts, mean) == DictStat(dicts, FlScipySem)

\* sem_* = {k: sem(...)} if len(...) > 1 else {k: 0.0 ...}
FlPacSem(dicts, mean) ==
    IF Len(dicts) > 1 THEN DictStat(dicts, FlScipySem) ELSE ZeroDict(mean)

FlPacMeanSemOf(dicts, mean) ==
    [raised |-> FALSE, mean |-> mean, sem |-> FlPacSem(dicts, mean)]

\* the mean and SEM dicts of a list of metric dicts (time slices or channels)
FlPacMeanSem(dicts) == FlPacMeanSemOf(dicts, DictStat(dicts, FlNpMean))

\* the grand mean and SEM of one band: with one file the SEM is that file's own
FlPacGrandOf(file_means_list) ==
    [raised |-> FALSE,
     mean |-> DictStat(Means(file_means_list), FlNpMean),
     sem |-> IF Len(file_means_list) > 1
             THEN DictStat(Means(file_means_list), FlScipySem)
             ELSE file_means_list[1].sem]

\* floats with a full significand in [1/2, 1)
FloatValues == {Rat(m, Pow2(Precision)) : m \in Pow2(Precision - 1)..(Pow2(Precision) - 1)}

\* the metrics every leaf carries
FloatLeaf(x) ==
    PyDict(<<Entry("MI", x), Entry("MVL", FDivInt(x, 2)), Entry("PLV", Int2F(1))>>)

\* one band of a PAC tree of nF files, nC channels and nS slices, every leaf
\* the same; results collects the summaries as they are written
InitFloat ==
    \E x \in FloatValues : \E nF \in 1..MaxGroup : \E nC \in 1..MaxGroup : \E nS \in 1..MaxGroup :
        /\ run = [mode |-> "float", leaf |-> FloatLeaf(x), nF |-> nF, nC |-> nC, nS |-> nS]
        /\ all_results = PyDict(<<>>)
        /\ results = <<>>
        /\ pc = "float"
        /\ fam = 1 /\ fi = 1 /\ ci = 1
        /\ chanAcc = <<>> /\ fileAcc = <<>>
        /\ frequencies = None
        /\ writes = <<>>
        /\ session = InitialSession

FlWritten(key, r) == [key |-> key, summary |-> PacSummary(r)]

FlChannelWrite(r) ==
    /\ results' = Append(results, FlWritten("mean_across_time", r))
    /\ chanAcc' = Append(chanAcc, PacItem(r))

\* one channel: its nS slices -> mean_across_time
FlChannelStep ==
    /\ pc = "float"
    /\ fi <= run.nF /\ ci <= run.nC
    /\ FlChannelWrite(FlPacMeanSem([s \in 1..run.nS |-> run.leaf]))
    /\ ci' = ci + 1
    /\ UNCHANGED <<all_results, pc, fam, fi, fileAcc, frequencies, writes, session, run>>

FlFileWrite(r) ==
    /\ results' = Append(results, FlWritten("mean_across_channels", r))
    /\ fileAcc' = Append(fileAcc, PacItem(r))

\* one file: its channel means -> mean_across_channels
FlFileStep ==
    /\ pc = "float"
    /\ fi <= run.nF /\ ci > run.nC
    /\ FlFileWrite(FlPacMeanSem(Means(chanAcc)))
    /\ fi' = fi + 1
    /\ ci' = 1
    /\ chanAcc' = <<>>
    /\ UNCHANGED <<all_results, pc, fam, frequencies, writes, session, run>>

FlGrandWrite(r) == results' = Append(results, FlWritten("grand_mean", r))

\* all files: the file means -> grand_mean
FlGrandStep ==
    /\ pc = "float"
    /\ fi > run.nF
    /\ FlGrandWrite(FlPacGrandOf(fileAcc))
    /\ pc' = "float_done"
    /\ UNCHANGED <<all_results, fam, fi, ci, chanAcc, fileAcc, frequencies, writes, session, run>>

NextFloat == FlChannelStep \/ FlFileStep \/ FlGrandStep

SpecFloat == InitFloat /\ [][NextFloat]_vars

\* a summary holds the leaves' values, with SEM 0
HoldsLeaf(w) ==
    /\ Get(w.summary, "means") = run.leaf
    /\ IsZeroVal(Get(w.summary, "sems"))

\* the largest group at or below the level of a summary
GroupsUpTo(key) ==
    CASE key = "mean_across_time" -> {run.nS}
      [] key = "mean_across_channels" -> {run.nS, run.nC}
      [] key = "grand_mean" -> {run.nS, run.nC, run.nF}

\* C9 (as amended): with the same metrics {MI, MVL, PLV} in every leaf, a
\* summary holds exactly those values with SEM 0 when no group at or below
\* its level has more than two children; a summary that holds exactly the
\* leaves' values has SEM 0 when its own group has more children.
C9_IdenticalLeaves ==
    \A i \in 1..Len(results) :
        /\ (\A n \in GroupsUpTo(results[i].key) : n <= 2) => HoldsLeaf(results[i])
        /\ (\A j \in 1..i : Get(results[j].summary, "means") = run.leaf)
              => IsZeroVal(Get(results[i].summary, "sems"))

\* C9 (as stated): for any number of slices, channels and files every summary
\* holds exactly the leaves' values and every SEM is 0
C9_IdenticalLeavesAsStated == \A i \in 1..Len(results) : HoldsLeaf(results[i])

\* two files of two channels of two slices have been aggregated up to the
\* grand mean, every summary equal to the leaves
C9_Witness ==
    /\ pc = "float_done"
    /\ run.nS = 2 /\ run.nC = 2 /\ run.nF = 2
    /\ Len(results) = 7
    /\ \A i \in 1..Len(results) : HoldsLeaf(results[i])

-----------------------------------------------------------------------------
(* C11: what a pass adds to its trees *)

\* new is old with reserved keys added, at any depth outside the summaries:
\* every key of old is in new, with its value kept in the same way, and every
\* key of new that old lacks is a reserved key
RECURSIVE OnlySummariesAdded(_, _)
OnlySummariesAdded(old, new) ==
    IF IsDict(old)
    THEN /\ IsDict(new)
         /\ \A i \in 1..Len(old.e) :
               /\ Has(new, old.e[i].k)
               /\ OnlySummariesAdded(old.e[i].v, Get(new, old.e[i].k))
         /\ \A j \in 1..Len(new.e) :
               ~Has(old, new.e[j].k) => new.e[j].k \in AGGREGATION_KEYS
    ELSE new = old

\* the tree handed to the call
InputTree == AllResults(run.inp)

\* some summary has been written somewhere in t
RECURSIVE HasSummary(_)
HasSummary(t) ==
    /\ IsDict(t)
    /\ \E i \in 1..Len(t.e) : t.e[i].k \in AGGREGATION_KEYS \/ HasSummary(t.e[i].v)

\* C11 (as amended): at every moment of a pass the trees it mutates in place
\* hold every file, channel/pair, band and time-slice key of the input with
\* its leaf unchanged, and the only keys added are reserved keys; the tree
\* that calculate_hierarchical_means returns relates in the same way to the
\* input with every NaN of its leaves replaced by None.
C11_OnlySummariesAdded ==
    /\ OnlySummariesAdded(InputTree, all_results)
    /\ pc = "returned" => OnlySummariesAdded(CleanNans(InputTree), results)

\* C11 (as stated): after calculate_hierarchical_means every input key is
\* present with an unchanged leaf and only reserved keys were added
C11_LeavesUnchanged ==
    pc = "returned" => OnlySummariesAdded(InputTree, results)

\* a returned tree with summaries at the three levels of every family, over
\* leaves without NaN: it is the input plus reserved keys
C11_Witness ==
    /\ pc = "returned"
    /\ run.inp.present = "all" /\ run.inp.nF = 2 /\ run.inp.nC = 2 /\ run.inp.nS = 2
    /\ run.inp.variant = "plain" /\ run.inp.hole = "none"
    /\ \A k \in 1..Len(FamilyOrder) :
          /\ Has(Get(results, FamilyOrder[k]), "grand_mean")
          /\ HasSummary(Get(Get(results, FamilyOrder[k]), FileNames[1]))
    /\ results # InputTree
    /\ OnlySummariesAdded(InputTree, results)

-----------------------------------------------------------------------------
(* C18: the grand mean over a single contributing file *)

\* PSD: with one file summarised, grand_mean is that file's mean_across_channels
PsdSingleFileGrand ==
    GrandSingleton("psd_results")
        => \A i \in WithKey(Get(results, "psd_results"), "mean_across_channels") :
              Get(Get(results, "psd_results"), "grand_mean")
                  = Get(Get(results, "psd_results").e[i].v, "mean_across_channels")

\* PAC: a band summarised in one file has that file's summary as its grand mean
PacSingleFileGrand ==
    LET t == Get(results, "pac_results")
    IN Has(t, "grand_mean")
         => \A b \in 1..Len(Get(t, "grand_mean").e) :
               \A i \in PacFilesWith(t, Get(t, "grand_mean").e[b].k) :
                   PacFilesWith(t, Get(t, "grand_mean").e[b].k) = {i}
                       => Get(t, "grand_mean").e[b].v
                          = Get(Get(t.e[i].v, "mean_across_channels"),
                                Get(t, "grand_mean").e[b].k)

\* C18: when exactly one file contributes to a PSD or PAC aggregation, the
\* grand mean node equals that file's mean_across_channels node: its means
\* and its SEM are the file's own, the SEM being the one over that file's
\* channel means and not a value recomputed over the single file.
C18_SingleFileGrand ==
    (pc = "returned" /\ IsDict(results))
        => /\ Has(results, "psd_results") => PsdSingleFileGrand
           /\ Has(results, "pac_results") => PacSingleFileGrand

\* a returned tree of one file whose two channels differ: the PSD grand SEM
\* and the PAC grand SEM of the first band are the file's nonzero SEM
C18_Witness ==
    /\ pc = "returned" /\ IsDict(results)
    /\ Has(results, "psd_results") /\ Has(results, "pac_results")
    /\ GrandSingleton("psd_results")
    /\ ~IsZeroVal(SemParts("psd_results", Get(Get(results, "psd_results"), "grand_mean"))[1])
    /\ Has(Get(results, "pac_results"), "grand_mean")
    /\ PacFilesWith(Get(results, "pac_results"), PacBandNames[1]) = {1}
    /\ ~IsZeroVal(Get(Get(Get(Get(results, "pac_results"), "grand_mean"), PacBandNames[1]), "sems"))

-----------------------------------------------------------------------------
(* The orchestrators run_psd_analysis, run_pac_analysis,                     *)
(* run_coherence_analysis and run_comodulogram_analysis over the selected    *)
(* files, one after another as app.py calls them.  The metrics of a leaf     *)
(* are computed from the samples its time slice selects; the model keeps     *)
(* the selected sample index range in their place.                           *)

MaxRanges == 2
ConfiguredFs == 2000

OrchNames == <<"psd", "pac", "coh", "comod">>

\* the selected channels of every file and what extract_short_name makes of them
OrchChannels == <<[full |-> "LFP Ch1", short |-> "Ch1"], [full |-> "EEG Ch2", short |-> "Ch2"]>>

\* the time ranges a channel may be configured with, in tenths of a second
TimeRangeTable == << <<5, 15>>, <<20, 40>>, <<45, 50>>, <<0, 100>> >>

\* what parse_time_ranges made of accepted band text, in tenths of a hertz
PhaseBands == << <<40, 100>> >>
AmpBands == << <<300, 550>>, <<550, 1000>> >>

\* a channel's record: n samples of 'values', with or without a 'times' vector
\* that spans 'duration' seconds
TimesTable ==
    << [has |-> FALSE, n |-> 20001, duration |-> 10],
       [has |-> TRUE, n |-> 10001, duration |-> 10],
       [has |-> TRUE, n |-> 20001, duration |-> 10] >>

\* str() of a float with one decimal, as an f-string prints it
FormatFloat(t10) == ToString(t10 \div 10) \o "." \o ToString(t10 % 10)

\* f"{time_range[0]}-{time_range[1]}s"
time_range_str(r) == FormatFloat(r[1]) \o "-" \o FormatFloat(r[2]) \o "s"

\* band_info of the within-channel and of the between-channels branch
BandInfo(cross, pa) ==
    IF cross
    THEN "Bands_" \o FormatFloat(pa[1][1]) \o "-" \o FormatFloat(pa[1][2])
             \o "_" \o FormatFloat(pa[2][1]) \o "-" \o FormatFloat(pa[2][2])
    ELSE "Phase_" \o FormatFloat(pa[1][1]) \o "-" \o FormatFloat(pa[1][2])
             \o "_Amp_" \o FormatFloat(pa[2][1]) \o "-" \o FormatFloat(pa[2][2])

pair_name == "Phase(" \o OrchChannels[1].short \o ")_Amp(" \o OrchChannels[2].short \o ")"
pair_name_short == OrchChannels[1].short \o " vs " \o OrchChannels[2].short

\* round(p / q) of Python: to the nearest integer, ties to the even one
PyRound(p, q) ==
    IF 2 * (p % q) < q THEN p \div q
    ELSE IF 2 * (p % q) > q THEN (p \div q) + 1
    ELSE IF (p \div q) % 2 = 0 THEN p \div q
    ELSE (p \div q) + 1

\* the rate derived from a channel's 'times', the configured one without them
DerivedFs(t) ==
    IF t.has
    THEN IF t.duration > 0 THEN PyRound(t.n - 1, t.duration) ELSE ConfiguredFs
    ELSE ConfiguredFs

\* fs_to_use of each orchestrator
FsToUse(orch, cross, t) ==
    CASE orch = "psd" -> DerivedFs(t)
      [] orch = "pac" -> IF cross THEN DerivedFs(t) ELSE ConfiguredFs
      [] orch = "coh" -> ConfiguredFs
      [] orch = "comod" -> DerivedFs(t)

\* int(time * fs) for a time in tenths of a second
SampleIndex(t10, fs) == (t10 * fs) \div 10

Min2(a, b) == IF a < b THEN a ELSE b

\* the samples data[id_st:id_end] of a signal of n samples
SampleRange(r, fs, n) == <<Min2(SampleIndex(r[1], fs), n), Min2(SampleIndex(r[2], fs), n)>>

\* the Metric Result of one slice
OrchLeaf(r, fs, n) == PyList(<<Int2F(SampleRange(r, fs, n)[1]), Int2F(SampleRange(r, fs, n)[2])>>)

\* {time_range_str: leaf} over the time ranges rs
SliceEntries(rs, fs, n) ==
    PyDict([i \in 1..Len(rs) |-> Entry(time_range_str(rs[i]), OrchLeaf(rs[i], fs, n))])

\* the (phase band, amplitude band) pairs in the order of the nested loops
BandCombos(phase, amp) ==
    [k \in 1..(Len(phase) * Len(amp)) |->
        <<phase[((k - 1) \div Len(amp)) + 1], amp[((k - 1) % Len(amp)) + 1]>>]

\* {channel: slices} for every selected channel
PerChannel(slices) ==
    PyDict([c \in 1..Len(OrchChannels) |-> Entry(OrchChannels[c].full, slices)])

\* {band_info: slices} for every band combination
PerBand(cross, combos, slices) ==
    PyDict([k \in 1..Len(combos) |-> Entry(BandInfo(cross, combos[k]), slices)])

\* one iteration of the file loop of run_psd_analysis
RunPsdFile(res, file_name, loaded, rs, fs, n) ==
    IF ~loaded \/ rs = <<>> THEN Put(res, file_name, PyDict(<<>>))
    ELSE Put(res, file_name, PerChannel(SliceEntries(rs, fs, n)))

\* one iteration of the file loop of run_pac_analysis, within-channel branch
RunPacWithinFile(res, file_name, loaded, combos, rs, fs, n) ==
    IF ~loaded THEN res
    ELSE IF rs = <<>> \/ combos = <<>> THEN Put(res, file_name, PyDict(<<>>))
    ELSE Put(res, file_name, PerChannel(PerBand(FALSE, combos, SliceEntries(rs, fs, n))))

\* one iteration of the file loop of run_pac_analysis, between-channels branch
RunPacCrossFile(res, file_name, loaded, combos, rs, fs, n) ==
    IF ~loaded THEN res
    ELSE IF rs = <<>> \/ combos = <<>> THEN Put(res, file_name, PyDict(<<>>))
    ELSE Put(res, file_name,
             PyDict(<<Entry(pair_name, PerBand(TRUE, combos, SliceEntries(rs, fs, n)))>>))

\* the between-channels branch reads pair_name after the band loops, where no
\* band combination has bound it
PacCrossRaises(loaded, combos, rs) == loaded /\ Len(rs) > 1 /\ combos = <<>>

\* the time ranges whose slice has at least 2 * fs samples
LongRanges(rs, fs, n) ==
    LET Long(r) == SampleRange(r, fs, n)[2] - SampleRange(r, fs, n)[1] >= 2 * fs
    IN SelectSeq(rs, Long)

\* one iteration of the file loop of run_coherence_analysis
RunCohFile(res, file_name, loaded, rs, fs, n) ==
    IF ~loaded \/ LongRanges(rs, fs, n) = <<>> THEN res
    ELSE Put(res, file_name,
             PyDict(<<Entry(pair_name_short, SliceEntries(LongRanges(rs, fs, n), fs, n))>>))

\* one iteration of the file loop of run_comodulogram_analysis
RunComodFile(res, file_name, loaded, cross, rs, fs, n) ==
    IF ~loaded THEN res
    ELSE IF rs = <<>> THEN Put(res, file_name, PyDict(<<>>))
    ELSE IF cross
    THEN Put(res, file_name, PyDict(<<Entry(pair_name, SliceEntries(rs, fs, n))>>))
    ELSE Put(res, file_name, PerChannel(SliceEntries(rs, fs, n)))


\* the time ranges configured for the channels of file f
TimeRangesOf(f) == SubSeq(TimeRangeTable, 1, run.nR[f])

BothChannels == [c \in 1..Len(OrchChannels) |-> OrchChannels[c].full]
PhaseChannel == <<OrchChannels[1].full>>

\* the samples an iteration of a file loop selects: one record per channel
\* (the phase channel of a pair) and time range
SampleLog(orch, file_name, chans, rs, fs, n) ==
    [k \in 1..(Len(chans) * Len(rs)) |->
        [orch |-> orch, file |-> file_name,
         chan |-> chans[((k - 1) \div Len(rs)) + 1],
         time_range |-> rs[((k - 1) % Len(rs)) + 1],
         range |-> SampleRange(rs[((k - 1) % Len(rs)) + 1], fs, n)]]

\* the end of one iteration of a file loop
OrchFileDone(res, raised, log) ==
    /\ results' = res
    /\ writes' = IF run.loaded[fi] THEN writes \o log ELSE writes
    /\ pc' = IF raised THEN "raised" ELSE "orch"
    /\ fi' = fi + 1
    /\ UNCHANGED <<all_results, fam, ci, chanAcc, fileAcc, frequencies, session, run>>

PsdFileStep ==
    /\ pc = "orch" /\ OrchNames[fam] = "psd" /\ fi <= MaxFiles
    /\ OrchFileDone(RunPsdFile(results, FileNames[fi], run.loaded[fi], TimeRangesOf(fi),
                               FsToUse("psd", run.cross, run.times), run.times.n),
                    FALSE,
                    SampleLog("psd", FileNames[fi], BothChannels, TimeRangesOf(fi),
                              FsToUse("psd", run.cross, run.times), run.times.n))

PacFileStep ==
    /\ pc = "orch" /\ OrchNames[fam] = "pac" /\ fi <= MaxFiles
    /\ IF run.cross
       THEN OrchFileDone(RunPacCrossFile(results, FileNames[fi], run.loaded[fi],
                                         BandCombos(run.phase_freq_bands, run.amp_freq_bands),
                                         TimeRangesOf(fi),
                                         FsToUse("pac", TRUE, run.times), run.times.n),
                         PacCrossRaises(run.loaded[fi],
                                        BandCombos(run.phase_freq_bands, run.amp_freq_bands),
                                        TimeRangesOf(fi)),
                         SampleLog("pac", FileNames[fi], PhaseChannel, TimeRangesOf(fi),
                                   FsToUse("pac", TRUE, run.times), run.times.n))
       ELSE OrchFileDone(RunPacWithinFile(results, FileNames[fi], run.loaded[fi],
                                          BandCombos(run.phase_freq_bands, run.amp_freq_bands),
                                          TimeRangesOf(fi),
                                          FsToUse("pac", FALSE, run.times), run.times.n),
                         FALSE,
                         SampleLog("pac", FileNames[fi], BothChannels, TimeRangesOf(fi),
                                   FsToUse("pac", FALSE, run.times), run.times.n))

CohFileStep ==
    /\ pc = "orch" /\ OrchNames[fam] = "coh" /\ fi <= MaxFiles
    /\ OrchFileDone(RunCohFile(results, FileNames[fi], run.loaded[fi], TimeRangesOf(fi),
                               FsToUse("coh", run.cross, run.times), run.times.n),
                    FALSE,
                    SampleLog("coh", FileNames[fi], PhaseChannel, TimeRangesOf(fi),
                              FsToUse("coh", run.cross, run.times), run.times.n))

ComodFileStep ==
    /\ pc = "orch" /\ OrchNames[fam] = "comod" /\ fi <= MaxFiles
    /\ OrchFileDone(RunComodFile(results, FileNames[fi], run.loaded[fi], run.cross,
                                 TimeRangesOf(fi),
                                 FsToUse("comod", run.cross, run.times), run.times.n),
                    FALSE,
                    SampleLog("comod", FileNames[fi],
                              IF run.cross THEN PhaseChannel ELSE BothChannels,
                              TimeRangesOf(fi),
                              FsToUse("comod", run.cross, run.times), run.times.n))

\* 'return results, figures', and app.py goes on to the next orchestrator
OrchReturn ==
    /\ pc = "orch" /\ fi > MaxFiles
    /\ all_results' = Put(all_results, OrchNames[fam], results)
    /\ results' = PyDict(<<>>)
    /\ fi' = 1
    /\ IF fam = Len(OrchNames)
       THEN pc' = "orch_done" /\ fam' = fam
       ELSE pc' = "orch" /\ fam' = fam + 1
    /\ UNCHANGED <<ci, chanAcc, fileAcc, frequencies, writes, session, run>>

\* one press of "Start Calculations": which files load, the channels' records,
\* the time ranges of each file's channels, and the bands PAC_settings hands
\* over ([] where parse_time_ranges rejected the text)
InitOrch ==
    \E loaded \in [1..MaxFiles -> BOOLEAN] : \E cross \in BOOLEAN :
    \E t \in 1..Len(TimesTable) : \E nR \in [1..MaxFiles -> 0..MaxRanges] :
    \E phase \in {PhaseBands, <<>>} : \E amp \in {AmpBands, <<>>} :
        /\ run = [mode |-> "orch", loaded |-> loaded, cross |-> cross,
                  times |-> TimesTable[t], nR |-> nR,
                  phase_freq_bands |-> phase, amp_freq_bands |-> amp]
        /\ all_results = PyDict(<<>>)
        /\ results = PyDict(<<>>)
        /\ pc = "orch"
        /\ fam = 1 /\ fi = 1 /\ ci = 1
        /\ chanAcc = <<>> /\ fileAcc = <<>>
        /\ frequencies = None
        /\ writes = <<>>
        /\ session = InitialSession

NextOrch == PsdFileStep \/ PacFileStep \/ CohFileStep \/ ComodFileStep \/ OrchReturn

SpecOrch == InitOrch /\ [][NextOrch]_vars

-----------------------------------------------------------------------------
(* C12, C14, C19: the orchestrators *)

\* file f has something to store in the tree of orchestrator orch
Contributes(orch, f) ==
    /\ run.loaded[f]
    /\ TimeRangesOf(f) # <<>>
    /\ orch = "pac" => BandCombos(run.phase_freq_bands, run.amp_freq_bands) # <<>>
    /\ orch = "coh" => LongRanges(TimeRangesOf(f), ConfiguredFs, run.times.n) # <<>>

\* C12 (as stated): in the tree every orchestrator returns, a file whose load
\* returned None has no key, and every other file with something to store
\* has one.
C12_UnloadedFileAbsent ==
    \A k \in 1..Len(OrchNames) :
        Has(all_results, OrchNames[k])
            => \A f \in 1..MaxFiles :
                  /\ ~run.loaded[f] => ~Has(Get(all_results, OrchNames[k]), FileNames[f])
                  /\ Contributes(OrchNames[k], f)
                        => Has(Get(all_results, OrchNames[k]), FileNames[f])

\* C14 (as stated): every family selects the samples of a (file, channel, time
\* slice) with the rate derived from the channel's 'times' when it has one and
\* the configured rate otherwise, so the same slice is the same sample range
\* in every family.
C14_SameSamplesEverywhere ==
    /\ \A i \in 1..Len(writes) :
          writes[i].range = SampleRange(writes[i].time_range, DerivedFs(run.times), run.times.n)
    /\ \A i, j \in 1..Len(writes) :
          (/\ writes[i].file = writes[j].file
           /\ writes[i].chan = writes[j].chan
           /\ writes[i].time_range = writes[j].time_range)
              => writes[i].range = writes[j].range

\* C19 (as stated): with rejected phase-band or amplitude-band text no
\* orchestrator raises.
C19_RejectedBandsNeverRaise ==
    (run.phase_freq_bands = <<>> \/ run.amp_freq_bands = <<>>) => pc # "raised"

-----------------------------------------------------------------------------
(* utils.parse_time_ranges on the characters of the text, and the two       *)
(* places of file_loader.files_struturization that store what it returns    *)

MaxPairs == 2

\* str.strip(): without leading and trailing blanks
RECURSIVE Strip(_)
Strip(cs) ==
    IF cs = <<>> THEN cs
    ELSE IF Head(cs) = " " THEN Strip(Tail(cs))
    ELSE IF cs[Len(cs)] = " " THEN Strip(SubSeq(cs, 1, Len(cs) - 1))
    ELSE cs

\* position of the first sep in cs at or after i (Len(cs) + 1: none)
RECURSIVE FindChar(_, _, _)
FindChar(cs, sep, i) ==
    IF i > Len(cs) \/ cs[i] = sep THEN i ELSE FindChar(cs, sep, i + 1)

\* str.split(sep): the pieces between the separators, empty ones included
RECURSIVE SplitOn(_, _)
SplitOn(cs, sep) ==
    IF FindChar(cs, sep, 1) > Len(cs) THEN <<cs>>
    ELSE <<SubSeq(cs, 1, FindChar(cs, sep, 1) - 1)>>
             \o SplitOn(SubSeq(cs, FindChar(cs, sep, 1) + 1, Len(cs)), sep)

\* str.split(): the pieces between runs of blanks, none of them empty
SplitBlanks(cs) ==
    LET NonEmpty(piece) == piece # <<>>
    IN SelectSeq(SplitOn(cs, " "), NonEmpty)

\* the digits-and-point forms float() reads: "12", "1.5", "1.", ".5"
IsDecimal(cs) ==
    /\ DigitsEnd(cs, 1) > 1 \/ (Len(cs) >= 2 /\ cs[1] = "." /\ cs[2] \in Digits)
    /\ \/ DigitsEnd(cs, 1) > Len(cs)
       \/ /\ cs[DigitsEnd(cs, 1)] = "."
          /\ DigitsEnd(cs, DigitsEnd(cs, 1) + 1) > Len(cs)

\* float(token) without its sign: a number, nan, or ValueError
PyFloatUnsigned(cs) ==
    IF cs = <<"n", "a", "n">> THEN NaN
    ELSE IF cs # <<>> /\ IsDecimal(cs) THEN ParseFloat(cs, 1, Len(cs) + 1)
    ELSE Raise

\* float(token)
PyFloat(cs) ==
    IF cs # <<>> /\ cs[1] = "-"
    THEN IF IsNum(PyFloatUnsigned(Tail(cs))) THEN FNeg(PyFloatUnsigned(Tail(cs)))
         ELSE PyFloatUnsigned(Tail(cs))
    ELSE PyFloatUnsigned(cs)

\* x >= y on floats: False when either is nan
FloatGe(x, y) == IsNum(x) /\ IsNum(y) /\ x.n * y.d >= y.n * x.d

\* 'if start >= end: return None'
StartNotBeforeEnd(start, end) == FloatGe(start, end)

\* the loop of parse_time_ranges over pairs[i..], ranges collected so far
RECURSIVE ParsePairs(_, _, _)
ParseStartEnd(pairs, i, ranges, start, end) ==
    IF IsRaise(start) \/ IsRaise(end) THEN None
    ELSE IF StartNotBeforeEnd(start, end) THEN None
    ELSE ParsePairs(pairs, i + 1, Append(ranges, PyList(<<start, end>>)))

ParseParts(pairs, i, ranges, parts) ==
    IF Len(parts) # 2 THEN None
    ELSE ParseStartEnd(pairs, i, ranges, PyFloat(parts[1]), PyFloat(parts[2]))

ParsePairs(pairs, i, ranges) ==
    IF i > Len(pairs) THEN PyList(ranges)
    ELSE IF Strip(pairs[i]) = <<>> THEN ParsePairs(pairs, i + 1, ranges)
    ELSE ParseParts(pairs, i, ranges, SplitBlanks(Strip(pairs[i])))

parse_time_ranges(text_input) == ParsePairs(SplitOn(Strip(text_input), ";"), 1, <<>>)

\* the texts of one pair the model types
PairTexts ==
    { <<>>, <<" ">>,
      <<"1">>,
      <<"1", " ", "2", ".", "5">>,
      <<" ", "1", " ", " ", "2", ".", "5", " ">>,
      <<"2", ".", "5", " ", "1", "0">>,
      <<"2", ".", "5", " ", "1">>,
      <<"1", " ", "1">>,
      <<"1", ".", " ", "2">>,
      <<".", "5", " ", "1">>,
      <<"-", "1", " ", "1">>,
      <<"1", " ", "2", " ", "3">>,
      <<"x", " ", "1">>,
      <<"1", " ", "1", ".", "2", ".", "3">>,
      <<"1", " ", ".">>,
      <<"n", "a", "n", " ", "1">>,
      <<"1", " ", "n", "a", "n">> }

\* pairs joined by ';'
RECURSIVE JoinPairs(_)
JoinPairs(ps) ==
    IF Len(ps) = 1 THEN ps[1] ELSE ps[1] \o <<";">> \o JoinPairs(Tail(ps))

InputTexts == {JoinPairs(ps) : ps \in UNION {[1..k -> PairTexts] : k \in 1..MaxPairs}}

\* the ranges stored before the text is typed
StoredRanges == PyList(<<PyList(<<Int2F(0), Int2F(10)>>)>>)

\* st.session_state.selections: every file with both channels configured
StoredSelections ==
    PyDict([f \in 1..MaxFiles |->
              Entry(FileNames[f],
                    PyDict([c \in 1..Len(OrchChannels) |->
                              Entry(OrchChannels[c].full, StoredRanges)]))])

Selections == Get(session, "selections")

\* the channels a global apply selects, by short name
GlobalSelected == {OrchChannels[1].short}

\* {long_channel_name: parsed_global_ranges} for the selected channels of a file
GlobalChannels(parsed) ==
    LET Chosen(ch) == ch.short \in GlobalSelected
        chosen == SelectSeq(OrchChannels, Chosen)
    IN PyDict([c \in 1..Len(chosen) |-> Entry(chosen[c].full, parsed)])

\* the loop of "Apply to All Files" over the files f.. of file_list
RECURSIVE ApplyToAll(_, _, _)
ApplyToAll(selections, parsed, f) ==
    IF f > MaxFiles THEN selections
    ELSE IF ~run.loaded[f] THEN ApplyToAll(selections, parsed, f + 1)
    ELSE ApplyToAll(Put(selections, FileNames[f], GlobalChannels(parsed)), parsed, f + 1)

\* what the text input of the first channel of the first file does with parsed
ChannelStore(parsed) ==
    /\ results' = parsed
    /\ IF IsNone(parsed)
       THEN pc' = "rejected" /\ UNCHANGED session
       ELSE /\ pc' = "stored"
            /\ session' = Put(session, "selections",
                              Put(Selections, FileNames[1],
                                  Put(Get(Selections, FileNames[1]), OrchChannels[1].full, parsed)))

\* the per-channel text input of files_struturization
ChannelTextInput ==
    /\ pc = "ranges"
    /\ IF run.text # <<>>
       THEN ChannelStore(parse_time_ranges(run.text))
       ELSE /\ pc' = "cleared"
            /\ results' = results
            /\ session' = Put(session, "selections",
                              Put(Selections, FileNames[1],
                                  Put(Get(Selections, FileNames[1]), OrchChannels[1].full,
                                      PyList(<<>>))))
    /\ UNCHANGED <<all_results, fam, fi, ci, chanAcc, fileAcc, frequencies, writes, run>>

GlobalStore(parsed) ==
    /\ results' = parsed
    /\ IF IsNone(parsed)
       THEN pc' = "rejected" /\ UNCHANGED session
       ELSE /\ pc' = "applied"
            /\ session' = Put(session, "selections", ApplyToAll(Selections, parsed, 1))

\* the button "Apply to All Files" of files_struturization
GlobalApply ==
    /\ pc = "ranges"
    /\ GlobalStore(parse_time_ranges(run.text))
    /\ UNCHANGED <<all_results, fam, fi, ci, chanAcc, fileAcc, frequencies, writes, run>>

\* the next script run shows the widgets again
NextText ==
    /\ pc \in {"rejected", "stored", "cleared", "applied"}
    /\ pc' = "shown"
    /\ UNCHANGED <<all_results, results, fam, fi, ci, chanAcc, fileAcc, frequencies, writes,
                   session, run>>

InitRanges ==
    \E text \in InputTexts : \E loaded \in [1..MaxFiles -> BOOLEAN] :
        /\ run = [mode |-> "ranges", text |-> text, loaded |-> loaded]
        /\ session = Put(InitialSession, "selections", StoredSelections)
        /\ results = PyList(<<>>)
        /\ pc = "ranges"
        /\ all_results = PyDict(<<>>)
        /\ fam = 1 /\ fi = 1 /\ ci = 1
        /\ chanAcc = <<>> /\ fileAcc = <<>>
        /\ frequencies = None
        /\ writes = <<>>

NextRanges == ChannelTextInput \/ GlobalApply \/ NextText

SpecRanges == InitRanges /\ [][NextRanges]_vars

-----------------------------------------------------------------------------
(* C13: time-range text is accepted or rejected as a whole                  *)

\* the non-empty pairs of a text, each as its sequence of tokens
TokenPairs(text_input) ==
    LET NonEmpty(pair) == Strip(pair) # <<>>
        pairs == SelectSeq(SplitOn(Strip(text_input), ";"), NonEmpty)
    IN [k \in 1..Len(pairs) |-> SplitBlanks(Strip(pairs[k]))]

\* start < end as numbers
StartBeforeEnd(start, end) == IsNum(start) /\ IsNum(end) /\ start.n * end.d < end.n * start.d

\* a pair that the claim says rejects the whole text
RejectedPair(parts) ==
    \/ Len(parts) # 2
    \/ IsRaise(PyFloat(parts[1])) \/ IsRaise(PyFloat(parts[2]))
    \/ FloatGe(PyFloat(parts[1]), PyFloat(parts[2]))

\* every non-empty pair, in input order, as [start, end] with start < end
ReturnsEveryPair(parsed, pairs) ==
    /\ parsed.t = "list"
    /\ Len(parsed.e) = Len(pairs)
    /\ \A k \in 1..Len(pairs) :
          /\ Len(pairs[k]) = 2
          /\ parsed.e[k] = PyList(<<PyFloat(pairs[k][1]), PyFloat(pairs[k][2])>>)
          /\ StartBeforeEnd(parsed.e[k].e[1], parsed.e[k].e[2])

\* C13: parse_time_ranges returns None if any non-empty pair has a token
\* count other than 2, a non-numeric token or start >= end, and otherwise
\* returns every non-empty pair in input order with start < end; a rejected
\* text leaves the stored selections unchanged, and only accepted text
\* replaces the stored ranges (of the channel, or of every loaded file).
C13_AcceptedOrRejectedWhole ==
    pc \in {"rejected", "stored", "applied"} =>
        /\ IsNone(results) <=> \E k \in 1..Len(TokenPairs(run.text)) :
                                   RejectedPair(TokenPairs(run.text)[k])
        /\ ~IsNone(results) => ReturnsEveryPair(results, TokenPairs(run.text))
        /\ pc = "rejected" <=> IsNone(results)
        /\ pc = "rejected" => Selections = StoredSelections
        /\ pc = "stored" =>
              Get(Get(Selections, FileNames[1]), OrchChannels[1].full) = results
        /\ pc = "applied" =>
              \A f \in 1..MaxFiles :
                  Get(Selections, FileNames[f]) =
                      IF run.loaded[f] THEN GlobalChannels(results)
                      ELSE Get(StoredSelections, FileNames[f])

-----------------------------------------------------------------------------
(* PSD.calculate_band_power on a spectrum of a few bins                     *)

MaxFreqBins == 3

\* scipy.stats.sem(v), squared: a NaN among the values propagates
SemPropagate(v) == IF HasNaN(v) THEN NaN ELSE SampleSemSq(v)

\* a variant with the band's edges left out (mutation of C15)
BandIndicesOpen(freqs, band) ==
    LET Inside(i) == /\ FloatGe(freqs[i], band[1]) /\ freqs[i] # band[1]
                     /\ FloatGe(band[2], freqs[i]) /\ freqs[i] # band[2]
    IN SelectSeq([i \in 1..Len(freqs) |-> i], Inside)

\* np.where((freqs >= band[0]) & (freqs <= band[1]))[0]
BandIndices(freqs, band) ==
    LET Inside(i) == FloatGe(freqs[i], band[1]) /\ FloatGe(band[2], freqs[i])
    IN SelectSeq([i \in 1..Len(freqs) |-> i], Inside)

\* psd[idx_band]
TakeBins(psd, idx_band) == [k \in 1..Len(idx_band) |-> psd[idx_band[k]]]

\* mean_power of one band
BandMean(psd, idx_band) ==
    IF Len(idx_band) > 0 THEN NpMean(TakeBins(psd, idx_band)) ELSE Zero

\* error of one band (squared)
BandError(psd, idx_band) ==
    IF Len(idx_band) > 1 THEN SemPropagate(TakeBins(psd, idx_band)) ELSE Zero

calculate_band_power(psd, freqs, bands) ==
    [means  |-> [b \in 1..Len(bands) |-> BandMean(psd, BandIndices(freqs, bands[b]))],
     errors |-> [b \in 1..Len(bands) |-> BandError(psd, BandIndices(freqs, bands[b]))]]

\* the frequency of bin i of the spectrum: 0, 2, 4, ...
BinFrequency(i) == Int2F(2 * (i - 1))

PowerValues == {Int2F(1), Int2F(3), NaN}

\* band edges on a bin, between two bins, and reversed
BandEdges == {Int2F(1), Int2F(2), Int2F(4)}

BandInputs ==
    {[mode |-> "band", psd |-> psd, freqs |-> [i \in 1..Len(psd) |-> BinFrequency(i)],
      bands |-> bands] :
        psd \in UNION {[1..n -> PowerValues] : n \in 1..MaxFreqBins},
        bands \in [1..NBands -> BandEdges \X BandEdges]}

BandPowerStep ==
    /\ pc = "band"
    /\ results' = calculate_band_power(run.psd, run.freqs, run.bands)
    /\ pc' = "band_done"
    /\ UNCHANGED <<all_results, fam, fi, ci, chanAcc, fileAcc, frequencies, writes,
                   session, run>>

InitBand ==
    /\ run \in BandInputs
    /\ pc = "band"
    /\ results = None
    /\ all_results = PyDict(<<>>)
    /\ session = PyDict(<<>>)
    /\ fam = 1 /\ fi = 1 /\ ci = 1
    /\ chanAcc = <<>> /\ fileAcc = <<>>
    /\ frequencies = None
    /\ writes = <<>>

NextBand == BandPowerStep

SpecBand == InitBand /\ [][NextBand]_vars
-----------------------------------------------------------------------------
(* C15: empty and one-bin bands of calculate_band_power                     *)

\* the bins of the spectrum inside the closed band [low, high]
BinsInside(band) ==
    {i \in 1..Len(run.freqs) :
        /\ band[1].n * run.freqs[i].d <= run.freqs[i].n * band[1].d
        /\ run.freqs[i].n * band[2].d <= band[2].n * run.freqs[i].d}

\* the values of a set of bins, in bin order
RECURSIVE BinValues(_, _)
BinValues(bins, i) ==
    IF i > Len(run.psd) THEN <<>>
    ELSE IF i \in bins THEN <<run.psd[i]>> \o BinValues(bins, i + 1)
    ELSE BinValues(bins, i + 1)

\* C15: calculate_band_power returns mean 0 and SEM 0 for every band that
\* contains no frequency bin, and SEM 0 for every band that contains exactly
\* one bin; a bin whose frequency equals the low or the high edge of the
\* band is inside it, so the mean is taken over the closed band.
C15_EmptyAndSingleBinBands ==
    pc = "band_done" =>
        \A b \in 1..Len(run.bands) :
            /\ BinsInside(run.bands[b]) = {} =>
                  results.means[b] = Zero /\ results.errors[b] = Zero
            /\ Cardinality(BinsInside(run.bands[b])) = 1 =>
                  /\ results.errors[b] = Zero
                  /\ \E i \in BinsInside(run.bands[b]) : results.means[b] = run.psd[i]
            /\ BinsInside(run.bands[b]) # {} =>
                  results.means[b] = NpMean(BinValues(BinsInside(run.bands[b]), 1))

\* a band without bins beside a band whose only bin lies on its edge, and a
\* band of two bins that both lie on its edges
C15_Witness ==
    /\ pc = "band_done"
    /\ Len(run.psd) = MaxFreqBins
    /\ \E b \in 1..Len(run.bands) :
          BinsInside(run.bands[b]) = {} /\ results.means[b] = Zero
    /\ \E b \in 1..Len(run.bands) :
          /\ \E i \in 1..Len(run.freqs) :
                BinsInside(run.bands[b]) = {i} /\ run.freqs[i] = run.bands[b][2]
                    /\ results.means[b] = Int2F(3)
          /\ results.errors[b] = Zero

-----------------------------------------------------------------------------
(* PAC.generate_sliding_windows and the loop of run_pac_analysis over it    *)

MaxSamples == 8

\* int(x) of a float x >= 0
IntOf(x) == x.n \div x.d

\* data[a:b] of a list
PySlice(data, a, b) == SubSeq(data, Min2(a, Len(data)) + 1, Min2(b, Len(data)))

WindowSize(fs, window_duration_s) == IntOf(FMul(window_duration_s, Int2F(fs)))

OverlapSamples(fs, window_duration_s, overlap_ratio) ==
    IntOf(FMul(Int2F(WindowSize(fs, window_duration_s)), overlap_ratio))

StepSize(fs, window_duration_s, overlap_ratio) ==
    WindowSize(fs, window_duration_s) - OverlapSamples(fs, window_duration_s, overlap_ratio)

\* a variant that forgets the overlap (mutation of C17)
NumWindowsOfLength(n, overlap_samples, step_size) == n \div step_size

\* num_windows = (len(data) - overlap_samples) // step_size
NumWindows(n, overlap_samples, step_size) == (n - overlap_samples) \div step_size

\* the i-th slice the generator yields (i from 0)
SlidingWindow(data, i, window_size, step_size) ==
    PySlice(data, i * step_size, i * step_size + window_size)

\* the signal of a slice: its samples, numbered from 0
SignalOf(n) == [k \in 1..n |-> k - 1]

SlideData == SignalOf(run.n)
SlideWindowSize == WindowSize(run.fs, run.window_duration_s)
SlideOverlap == OverlapSamples(run.fs, run.window_duration_s, run.overlap_ratio)
SlideStep == StepSize(run.fs, run.window_duration_s, run.overlap_ratio)

\* calculate_pac_metrics on one pair of windows reads min_len samples of each
WindowMetric(phase_win, amp_win) ==
    SubSeq(phase_win, 1, Min2(Len(phase_win), Len(amp_win)))

\* sliding_results = {'MI': [], 'MVL': [], 'PLV': []}; the first next() of
\* the generators computes num_windows
SlidingBegin ==
    /\ pc = "slide"
    /\ IF SlideStep = 0
       THEN pc' = "raised" /\ results' = Raise           \* ZeroDivisionError
       ELSE pc' = "windows" /\ results' = [MI |-> <<>>, MVL |-> <<>>, PLV |-> <<>>]
    /\ ci' = 0
    /\ UNCHANGED <<all_results, fam, fi, chanAcc, fileAcc, frequencies, writes, session, run>>

\* one round of 'for phase_win, amp_win in zip(phase_windows, amp_windows)'
SlidingAppend(phase_win, amp_win) ==
    /\ results' = [MI  |-> Append(results.MI, WindowMetric(phase_win, amp_win)),
                   MVL |-> Append(results.MVL, WindowMetric(phase_win, amp_win)),
                   PLV |-> Append(results.PLV, WindowMetric(phase_win, amp_win))]
    /\ writes' = Append(writes, phase_win)

WindowStep ==
    /\ pc = "windows"
    /\ ci < NumWindows(run.n, SlideOverlap, SlideStep)
    /\ SlidingAppend(SlidingWindow(SlideData, ci, SlideWindowSize, SlideStep),
                     SlidingWindow(SlideData, ci, SlideWindowSize, SlideStep))
    /\ ci' = ci + 1
    /\ UNCHANGED <<all_results, pc, fam, fi, chanAcc, fileAcc, frequencies, session, run>>

\* the generators are exhausted
WindowsEnd ==
    /\ pc = "windows"
    /\ ci >= NumWindows(run.n, SlideOverlap, SlideStep)
    /\ pc' = "slid"
    /\ UNCHANGED <<all_results, results, fam, fi, ci, chanAcc, fileAcc, frequencies, writes,
                   session, run>>

WindowDurations == {Rat(1, 2), Int2F(1), Rat(3, 2), Int2F(2)}
OverlapRatios == {Zero, Rat(1, 4), Rat(1, 2), Rat(3, 4), Int2F(1)}

InitSliding ==
    \E n \in 0..MaxSamples : \E d \in WindowDurations : \E o \in OverlapRatios :
        /\ run = [mode |-> "sliding", n |-> n, fs |-> 2,
                  window_duration_s |-> d, overlap_ratio |-> o]
        /\ pc = "slide"
        /\ results = None
        /\ all_results = PyDict(<<>>)
        /\ session = PyDict(<<>>)
        /\ fam = 1 /\ fi = 1 /\ ci = 0
        /\ chanAcc = <<>> /\ fileAcc = <<>>
        /\ frequencies = None
        /\ writes = <<>>

NextSliding == SlidingBegin \/ WindowStep \/ WindowsEnd

SpecSliding == InitSliding /\ [][NextSliding]_vars
-----------------------------------------------------------------------------
(* C17: the count and the extent of the sliding windows                     *)

\* max(0, floor((N - O) / S)) for S > 0, by the definition of the floor
WindowCount(n, o, s) ==
    IF n < o THEN 0 ELSE CHOOSE k \in 0..n : k * s <= n - o /\ n - o < (k + 1) * s

\* C17: with N samples, window size W, overlap O and step S = W - O > 0 the
\* generator yields max(0, floor((N - O)/S)) windows; window i is the samples
\* [i*S, i*S + W), has W samples and none past index N; the MI, MVL and PLV
\* lists have that length.
C17_SlidingWindows ==
    (pc \in {"windows", "slid"} /\ SlideStep > 0) =>
        /\ \A k \in 1..Len(writes) :
              /\ writes[k] = [j \in 1..SlideWindowSize |-> (k - 1) * SlideStep + j - 1]
              /\ Len(writes[k]) = SlideWindowSize
              /\ \A j \in 1..Len(writes[k]) : writes[k][j] < run.n
        /\ Len(results.MI) = Len(writes)
        /\ Len(results.MVL) = Len(writes)
        /\ Len(results.PLV) = Len(writes)
        /\ Len(writes) <= WindowCount(run.n, SlideOverlap, SlideStep)
        /\ pc = "slid" => Len(writes) = WindowCount(run.n, SlideOverlap, SlideStep)

\* overlapping windows, the last of them ending before the end of the signal
C17_Witness ==
    /\ pc = "slid"
    /\ SlideOverlap > 0
    /\ SlideStep > 1
    /\ Len(writes) >= 2
    /\ Len(results.MI) = Len(writes)
    /\ writes[Len(writes)][SlideWindowSize] < run.n - 1

-----------------------------------------------------------------------------
(* utils.notch_filter_50hz: the cascade of notch filters                    *)

MaxFh == 160

\* the sampling rates of the model: below, between and above the harmonics
NotchRates == {120, 250, 2000}

\* max_harmonic = int((F_h - 1) / 50)
MaxHarmonic(F_h) == IntOf(FDivInt(Int2F(F_h - 1), 50))

\* f0 = 50.0 * i
NotchFrequency(i) == FMul(Int2F(50), Int2F(i))

\* Q = f0 / 2.0
NotchQ(f0) == FDivInt(f0, 2)

\* scipy.signal.iirnotch(f0, Q, fs): the design, or ValueError when the
\* normalised frequency 2*f0/fs lies outside [0, 1]
IirNotch(f0, Q, fs) ==
    IF FloatGe(FMul(Int2F(2), f0), Int2F(fs)) /\ FMul(Int2F(2), f0) # Int2F(fs)
    THEN Raise
    ELSE [t |-> "notch", f0 |-> f0, Q |-> Q]

\* signal.filtfilt(b, a, filtered_data): the signal with one more filter applied
FiltFilt(design, filtered_data) ==
    [t |-> "signal", filters |-> Append(filtered_data.filters, design)]

\* the raw signal handed to the function
RawSignal == [t |-> "signal", filters |-> <<>>]

\* filtered_data = data, before the loop
NotchBegin ==
    /\ pc = "notch"
    /\ results' = RawSignal
    /\ ci' = 1
    /\ pc' = "harmonics"
    /\ UNCHANGED <<all_results, fam, fi, chanAcc, fileAcc, frequencies, writes, session, run>>

\* the body of the loop for harmonic i, given the filter design
NotchApply(design) ==
    IF IsRaise(design)
    THEN pc' = "raised" /\ UNCHANGED <<results, ci>>
    ELSE pc' = pc /\ results' = FiltFilt(design, results) /\ ci' = ci + 1

NotchStep ==
    /\ pc = "harmonics"
    /\ ci <= MaxHarmonic(run.F_h)
    /\ NotchApply(IirNotch(NotchFrequency(ci), NotchQ(NotchFrequency(ci)), run.fs))
    /\ UNCHANGED <<all_results, fam, fi, chanAcc, fileAcc, frequencies, writes, session, run>>

\* return filtered_data
NotchReturn ==
    /\ pc = "harmonics"
    /\ ci > MaxHarmonic(run.F_h)
    /\ pc' = "filtered"
    /\ UNCHANGED <<all_results, results, fam, fi, ci, chanAcc, fileAcc, frequencies, writes,
                   session, run>>

InitNotch ==
    \E F_h \in 1..MaxFh : \E fs \in NotchRates :
        /\ run = [mode |-> "notch", F_h |-> F_h, fs |-> fs]
        /\ pc = "notch"
        /\ results = None
        /\ all_results = PyDict(<<>>)
        /\ session = PyDict(<<>>)
        /\ fam = 1 /\ fi = 1 /\ ci = 1
        /\ chanAcc = <<>> /\ fileAcc = <<>>
        /\ frequencies = None
        /\ writes = <<>>

NextNotch == NotchBegin \/ NotchStep \/ NotchReturn

SpecNotch == InitNotch /\ [][NextNotch]_vars
-----------------------------------------------------------------------------
(* C16: the frequencies and quality factors of the notch cascade            *)

\* floor((max_freq - 1) / 50), by the definition of the floor
HarmonicCount(max_freq) ==
    CHOOSE k \in 0..max_freq : 50 * k <= max_freq - 1 /\ max_freq - 1 < 50 * (k + 1)

\* the filters at 50*i with Q = 25*i for i = 1..k, in increasing order
Cascade(k) == [i \in 1..k |-> [t |-> "notch", f0 |-> Int2F(50 * i), Q |-> Int2F(25 * i)]]

\* every harmonic below max_freq is at most the Nyquist frequency fs/2
HarmonicsWithinNyquist(max_freq, fs) == 2 * 50 * HarmonicCount(max_freq) <= fs

\* what the function does: when every harmonic below max_freq is at most
\* fs/2 it applies exactly the filters 50*i, Q = 25*i, i = 1..floor((max_freq
\* - 1)/50), in increasing order and each strictly below max_freq, and for
\* max_freq <= 50 it returns the input unchanged; otherwise it applies the
\* harmonics up to fs/2 and raises at the first one above.
CascadeWithinNyquist ==
    /\ (pc = "filtered" /\ HarmonicsWithinNyquist(run.F_h, run.fs)) =>
          /\ results.filters = Cascade(HarmonicCount(run.F_h))
          /\ \A i \in 1..Len(results.filters) :
                 results.filters[i].f0.n < run.F_h * results.filters[i].f0.d
          /\ run.F_h <= 50 => results = RawSignal
    /\ pc = "filtered" => HarmonicsWithinNyquist(run.F_h, run.fs)
    /\ pc = "raised" =>
          /\ ~HarmonicsWithinNyquist(run.F_h, run.fs)
          /\ 2 * 50 * ci > run.fs
          /\ results.filters = Cascade(ci - 1)

\* C16: for every integer max_freq >= 1 the function applies exactly the
\* filters 50*i, Q = 25*i, i = 1..floor((max_freq - 1)/50), in increasing
\* order and each strictly below max_freq, and for max_freq <= 50 it returns
\* the input signal unchanged.
C16_CascadeForEveryMaxFreq ==
    pc \in {"filtered", "raised"} =>
        /\ pc = "filtered"
        /\ results.filters = Cascade(HarmonicCount(run.F_h))
        /\ \A i \in 1..Len(results.filters) :
               results.filters[i].f0.n < run.F_h * results.filters[i].f0.d
        /\ run.F_h <= 50 => results = RawSignal

-----------------------------------------------------------------------------
(* the window parameters of the spectrogram (utils) and of the coheregram   *)
(* (coherence)                                                              *)

SampleRates == {2, 10, 2000}
FreqResolutions == {Rat(1, 2), Int2F(1), Int2F(2), Int2F(4), Int2F(8)}
TimeResolutions == {Rat(1, 8), Rat(1, 4), Rat(1, 2), Int2F(1), Int2F(2)}

\* int(round(x)) of a float x >= 0
RoundOf(x) == PyRound(x.n, x.d)

\* utils.calculate_spectrogram_params: (win_size, noverlap, overlap_percent)
SpectrogramOverlap(win_size, hop_size) ==
    IF win_size - hop_size < 0 THEN 0 ELSE win_size - hop_size

OverlapPercent(noverlap, win_size) ==
    IF win_size > 0 THEN FMul(Rat(noverlap, win_size), Int2F(100)) ELSE Zero

calculate_spectrogram_params(fs, desired_freq_res, desired_time_res) ==
    [win      |-> RoundOf(FDiv(Int2F(fs), desired_freq_res)),
     hop      |-> RoundOf(FMul(Int2F(fs), desired_time_res)),
     noverlap |-> SpectrogramOverlap(RoundOf(FDiv(Int2F(fs), desired_freq_res)),
                                     RoundOf(FMul(Int2F(fs), desired_time_res))),
     overlap_percent |->
         OverlapPercent(SpectrogramOverlap(RoundOf(FDiv(Int2F(fs), desired_freq_res)),
                                           RoundOf(FMul(Int2F(fs), desired_time_res))),
                        RoundOf(FDiv(Int2F(fs), desired_freq_res)))]

\* coherence._calculate_and_plot_coheregram: nperseg and noverlap
CoheregramOverlap(nperseg, hop) ==
    IF nperseg - hop >= nperseg THEN nperseg - 1 ELSE nperseg - hop

CoheregramParams(fs, time_res, freq_res) ==
    [win      |-> IntOf(FDiv(Int2F(fs), freq_res)),
     hop      |-> IntOf(FMul(Int2F(fs), time_res)),
     noverlap |-> CoheregramOverlap(IntOf(FDiv(Int2F(fs), freq_res)),
                                    IntOf(FMul(Int2F(fs), time_res)))]

\* app.py computes the spectrogram parameters of the PSD settings
SpectrogramParamsStep ==
    /\ pc = "resolutions"
    /\ results' = calculate_spectrogram_params(run.fs, run.freq_res, run.time_res)
    /\ pc' = "spectrogram"
    /\ UNCHANGED <<all_results, fam, fi, ci, chanAcc, fileAcc, frequencies, writes,
                   session, run>>

\* run_coherence_analysis computes a coheregram
CoheregramParamsStep ==
    /\ pc = "resolutions"
    /\ results' = CoheregramParams(run.fs, run.time_res, run.freq_res)
    /\ pc' = "coheregram"
    /\ UNCHANGED <<all_results, fam, fi, ci, chanAcc, fileAcc, frequencies, writes,
                   session, run>>

\* the next script run computes the parameters again
ResolutionsAgain ==
    /\ pc \in {"spectrogram", "coheregram"}
    /\ pc' = "resolutions"
    /\ UNCHANGED <<all_results, results, fam, fi, ci, chanAcc, fileAcc, frequencies, writes,
                   session, run>>

InitWindow ==
    \E fs \in SampleRates : \E fr \in FreqResolutions : \E tr \in TimeResolutions :
        /\ run = [mode |-> "window", fs |-> fs, freq_res |-> fr, time_res |-> tr]
        /\ pc = "resolutions"
        /\ results = None
        /\ all_results = PyDict(<<>>)
        /\ session = PyDict(<<>>)
        /\ fam = 1 /\ fi = 1 /\ ci = 1
        /\ chanAcc = <<>> /\ fileAcc = <<>>
        /\ frequencies = None
        /\ writes = <<>>

NextWindow == SpectrogramParamsStep \/ CoheregramParamsStep \/ ResolutionsAgain

SpecWindow == InitWindow /\ [][NextWindow]_vars
-----------------------------------------------------------------------------
(* C20: window, hop and overlap from the desired resolutions                *)

\* k is x rounded or truncated to an integer
IntegerOf(k, x) == (k - 1) * x.d < x.n /\ x.n < (k + 1) * x.d

\* win - hop where that lies in [0, win - 1], and win - 1 otherwise
ClampedOverlap(win, hop) ==
    IF 0 <= win - hop /\ win - hop <= win - 1 THEN win - hop ELSE win - 1

\* C20: for all positive fs, frequency resolution and time resolution the
\* parameters satisfy win = fs/freq_res, hop = fs*time_res and
\* 0 <= overlap <= win - 1: the overlap is win - hop when that lies in
\* [0, win - 1] and is clamped to win - 1 when win - hop would be negative
\* or >= win.
C20_OverlapClamped ==
    (pc \in {"spectrogram", "coheregram"} /\ results.win >= 1) =>
        /\ IntegerOf(results.win, FDiv(Int2F(run.fs), run.freq_res))
        /\ IntegerOf(results.hop, FMul(Int2F(run.fs), run.time_res))
        /\ 0 <= results.noverlap
        /\ results.noverlap <= results.win - 1
        /\ results.noverlap = ClampedOverlap(results.win, results.hop)

-----------------------------------------------------------------------------
(* PAC.calculate_pac_metrics: the phase bins of the modulation index        *)

MaxPhaseSamples == 3

\* phases in units of pi/4: -pi, -pi/4, 0, pi/2, pi
PhaseGrid == {Int2F(-4), Int2F(-1), Zero, Int2F(2), Int2F(4)}
PhaseBinCounts == {2, 3, 4}

\* np.linspace(-np.pi, np.pi, n_bins + 1), in units of pi/4
BinEdges(n_bins) == [j \in 1..(n_bins + 1) |-> FAdd(Int2F(-4), Rat(8 * (j - 1), n_bins))]

\* np.digitize(x, bin_edges): the number of edges e with e <= x
Digitize(x, bin_edges) == Cardinality({j \in 1..Len(bin_edges) : FloatGe(x, bin_edges[j])})

\* amplitude_series[binned_phase == i]
AmplitudesOfBin(amplitude_series, binned_phase, i) ==
    LET InBin(k) == binned_phase[k] = i
        ks == SelectSeq([k \in 1..Len(binned_phase) |-> k], InBin)
    IN [m \in 1..Len(ks) |-> amplitude_series[ks[m]]]

\* np.nan_to_num(x, nan=1e-15)
TinyAmplitude == [t |-> "1e-15"]
NanToNum(x) == IF IsNaN(x) THEN TinyAmplitude ELSE x

\* binned_phase and mean_amp_by_bin of calculate_pac_metrics
PhaseBinning(phase_series, amplitude_series, n_bins) ==
    [binned_phase |-> [k \in 1..Len(phase_series) |->
                          Digitize(phase_series[k], BinEdges(n_bins))],
     mean_amp_by_bin |->
         [i \in 1..n_bins |->
             NanToNum(NpMean(AmplitudesOfBin(amplitude_series,
                 [k \in 1..Len(phase_series) |-> Digitize(phase_series[k], BinEdges(n_bins))],
                 i)))],
     counts |->
         [i \in 1..n_bins |->
             Len(AmplitudesOfBin(amplitude_series,
                 [k \in 1..Len(phase_series) |-> Digitize(phase_series[k], BinEdges(n_bins))],
                 i))]]

\* phase_data[:min_len], amp_data[:min_len]
Truncated(data, min_len) == SubSeq(data, 1, min_len)

\* the amplitude of sample k of the model
AmplitudeOf(k) == Int2F(k)

BinStep ==
    /\ pc = "bins"
    /\ results' = PhaseBinning(Truncated(run.phase, Min2(Len(run.phase), Len(run.amp))),
                               Truncated(run.amp, Min2(Len(run.phase), Len(run.amp))),
                               run.n_bins)
    /\ pc' = "binned"
    /\ UNCHANGED <<all_results, fam, fi, ci, chanAcc, fileAcc, frequencies, writes,
                   session, run>>

InitBins ==
    \E n \in 1..MaxPhaseSamples : \E phase \in [1..n -> PhaseGrid] :
    \E extra \in {0, 1} : \E n_bins \in PhaseBinCounts :
        /\ run = [mode |-> "bins", phase |-> phase,
                  amp |-> [k \in 1..(n + extra - (IF n > 1 THEN 2 * extra ELSE 0)) |->
                              AmplitudeOf(k)],
                  n_bins |-> n_bins]
        /\ pc = "bins"
        /\ results = None
        /\ all_results = PyDict(<<>>)
        /\ session = PyDict(<<>>)
        /\ fam = 1 /\ fi = 1 /\ ci = 1
        /\ chanAcc = <<>> /\ fileAcc = <<>>
        /\ frequencies = None
        /\ writes = <<>>

NextBins == BinStep

SpecBins == InitBins /\ [][NextBins]_vars
-----------------------------------------------------------------------------
(* C21: every sample falls into exactly one phase bin                       *)

RECURSIVE SumInts(_)
SumInts(s) == IF s = <<>> THEN 0 ELSE Head(s) + SumInts(Tail(s))

\* C21: every sample whose phase lies in [-pi, pi], both ends included, is
\* assigned to exactly one of the n_bins phase bins and counted in that
\* bin's mean amplitude, so the bin counts sum to the truncated length.
C21_EverySampleInOneBin ==
    pc = "binned" =>
        /\ \A k \in 1..Len(results.binned_phase) : results.binned_phase[k] \in 1..run.n_bins
        /\ SumInts(results.counts) = Min2(Len(run.phase), Len(run.amp))

-----------------------------------------------------------------------------
(* C26: the sliding windows for every overlap ratio of the slider           *)

\* C26: for every overlap ratio in [0, 1] the configuration accepts, both
\* ends included, every positive window duration and every signal length,
\* generate_sliding_windows terminates without raising and yields a finite
\* number of windows.
C26_SlidingNeverRaises ==
    (run.mode = "sliding" /\ pc # "slide") =>
        /\ pc \in {"windows", "slid"}
        /\ Len(results.MI) <= run.n

-----------------------------------------------------------------------------
(* C22: a pass over trees that already carry their summaries                *)

\* the families two returned trees share
SharedFamilies(a, b) == IF IsDict(a) /\ IsDict(b) THEN KeySet(a) \cap KeySet(b) ELSE {}

\* C22: aggregation is idempotent on its own output: when a later script run
\* passes the session trees, which already carry summary nodes, through
\* calculate_hierarchical_means again, every family of the returned tree
\* (leaves, mean_across_time, mean_across_channels/pairs, grand_mean) equals
\* what the run before returned, so no summary node was counted as a child.
C22_RerunKeepsSummaries ==
    [][(pc = "clean" /\ pc' = "returned") =>
           \A k \in SharedFamilies(results, results') : Get(results', k) = Get(results, k)]_vars

\* a script run in which no block ran has aggregated the trees of the run
\* before, summaries included, and has written every summary again
C22_Witness ==
    /\ pc = "returned"
    /\ run.mode = "app"
    /\ run.stored = {}
    /\ run.inp.nC = MaxChans /\ run.inp.nS = MaxSlices
    /\ KeySet(results) = {"psd_results", "pac_results", "coh_results"}
    /\ \A k \in KeySet(results) : Has(Get(results, k), "grand_mean")
    /\ Len(writes) >= 3 * (MaxChans + 2)

-----------------------------------------------------------------------------
(* C30: the comodulogram results in the merged tree                         *)

\* C30: after a script run with the comodulogram enabled and at least one
\* channel and time range selected, the merged tree handed to
\* calculate_hierarchical_means contains comod_results, and the comodulogram
\* matrices get mean_across_time, mean_across_channels and grand_mean like
\* the other three families.
C30_ComodulogramAggregated ==
    (run.mode = "app" /\ pc = "returned" /\ "comod_figures" \in run.stored) =>
        /\ Has(all_results, "comod_results")
        /\ Has(results, "comod_results")
        /\ Has(Get(results, "comod_results"), "grand_mean")

-----------------------------------------------------------------------------
(* The selection widgets of file_loader.files_struturization, the          *)
(* on_change callbacks and the export at the end of every script run.      *)
(* One file; run.selections is st.session_state.selections[file_name],     *)
(* each channel holding the number of its time ranges.                     *)

SelectedFile == FileNames[1]
SelectionShape ==
    [nF |-> 1, nC |-> MaxChans, nS |-> MaxSlices, hole |-> "none", lab |-> "std",
     vpat |-> "byslice", variant |-> "plain", present |-> "psd_results"]

ChannelIndex(name) == CHOOSE c \in 1..Len(ChannelNames) : ChannelNames[c] = name

\* has_non_empty_third_level(st.session_state.selections)
has_non_empty_third_level(selections) ==
    \E i \in 1..Len(selections.e) : selections.e[i].v > 0

HasRanges(en) == en.v > 0

RangeSlices(en) ==
    Entry(en.k, PyDict([s \in 1..en.v |->
                          Entry(StdLabels[s], PsdLeaf(SelectionShape, 1, ChannelIndex(en.k), s))]))

\* PSD.run_psd_analysis on the selections of the one file: a file without
\* channels is skipped, a channel without time ranges gets no key
RunPsdOnSelections(selections) ==
    LET chosen == SelectSeq(selections.e, HasRanges)
    IN IF Len(selections.e) = 0 THEN PyDict(<<>>)
       ELSE PyDict(<<Entry(SelectedFile,
                           PyDict([i \in 1..Len(chosen) |-> RangeSlices(chosen[i])]))>>)

\* the PSD pass on the merged dict; the tree is the session's own object
AggregatedPsd(merged) ==
    IF Has(merged, "psd_results")
    THEN Put(merged, "psd_results",
             ProcessResults("psd_results", Get(merged, "psd_results")).node)
    ELSE merged

\* the end of a script run: merge_results_from_session, then
\* st.session_state.results = calculate_hierarchical_means(merged_results)
Export(state) ==
    /\ all_results' = AggregatedPsd(MergeResultsFromSession(state))
    /\ session' = IF Has(all_results', "psd_results")
                  THEN Put(state, "psd_results", Get(all_results', "psd_results"))
                  ELSE state
    /\ results' = CleanNans(all_results')
    /\ UNCHANGED <<fam, fi, ci, chanAcc, fileAcc, frequencies, writes>>

\* handle_channel_selection_change(file_name) for the chosen channels: new
\* channels get [], deselected ones are deleted
RECURSIVE AddSelected(_, _, _)
AddSelected(selections, chosen, c) ==
    IF c > MaxChans THEN selections
    ELSE IF ChannelNames[c] \in chosen /\ ~Has(selections, ChannelNames[c])
    THEN AddSelected(PyDict(Append(selections.e, Entry(ChannelNames[c], 0))), chosen, c + 1)
    ELSE AddSelected(selections, chosen, c + 1)

StillSelected(chosen, selections) ==
    LET Kept(en) == en.k \in chosen
    IN PyDict(SelectSeq(selections.e, Kept))

handle_channel_selection_change(selections, chosen) ==
    StillSelected(chosen, AddSelected(selections, chosen, 1))

\* the "Start Calculations" button: the PSD block stores its tree and figures
StartCalculations ==
    /\ run.mode = "select"
    /\ has_non_empty_third_level(run.selections)
    /\ pc' = "analysed"
    /\ run' = run
    /\ Export(Put(Put(session, "psd_results", RunPsdOnSelections(run.selections)),
                  "psd_figures", Figures))

\* a widget of main_FE with on_change=utils.reset_values takes a new value
ParameterChange ==
    /\ run.mode = "select"
    /\ pc' = "param_changed"
    /\ run' = run
    /\ Export(InitialSession)

\* the 'Activate PAC calculations' toggle of app.py carries no on_change; it
\* is drawn when a channel has time ranges
PacToggleChange ==
    /\ run.mode = "select"
    /\ has_non_empty_third_level(run.selections)
    /\ pc' = "toggle_changed"
    /\ run' = run
    /\ Export(session)

\* the text_input of a channel: on_change=utils.reset_values, then the script
\* stores the parsed ranges
TimeRangeChange ==
    /\ run.mode = "select"
    /\ \E i \in 1..Len(run.selections.e), n \in 0..MaxSlices :
          /\ n # run.selections.e[i].v
          /\ run' = [run EXCEPT !.selections = Put(@, run.selections.e[i].k, n)]
    /\ pc' = "ranges_changed"
    /\ Export(InitialSession)

\* the multiselect of the file: on_change=handle_channel_selection_change
ChannelSelectionChange ==
    /\ run.mode = "select"
    /\ \E chosen \in SUBSET {ChannelNames[c] : c \in 1..MaxChans} :
          /\ chosen # KeySet(run.selections)
          /\ run' = [run EXCEPT
                        !.selections = handle_channel_selection_change(@, chosen)]
    /\ pc' = "channels_changed"
    /\ Export(session)

InitSelect ==
    /\ all_results = PyDict(<<>>)
    /\ run = [mode |-> "select", selections |-> PyDict(<<>>)]
    /\ results = PyFalse
    /\ pc = "script"
    /\ fam = 0 /\ fi = 1 /\ ci = 1
    /\ chanAcc = <<>> /\ fileAcc = <<>>
    /\ frequencies = None
    /\ writes = <<>>
    /\ session = InitialSession

NextSelect ==
    \/ StartCalculations \/ ParameterChange \/ PacToggleChange
    \/ TimeRangeChange \/ ChannelSelectionChange

SpecSelect == InitSelect /\ [][NextSelect]_vars

\* the channels of the exported PSD tree
ExportedChannels ==
    IF IsDict(results) /\ Has(results, "psd_results")
            /\ Has(Get(results, "psd_results"), SelectedFile)
    THEN KeySet(Get(Get(results, "psd_results"), SelectedFile)) \ AGGREGATION_KEYS
    ELSE {}

\* C27: after a change of a parameter widget, of a channel's time ranges or of
\* the selected channels, the stored results and figures are cleared before
\* the export, and the exported tree holds no channel that is not selected.
C27_ResultsClearedOnChange ==
    (run.mode = "select"
        /\ pc \in {"param_changed", "toggle_changed", "ranges_changed", "channels_changed"}) =>
        /\ session = InitialSession
        /\ ExportedChannels \subseteq KeySet(run.selections)

-----------------------------------------------------------------------------
(* From the typed time range to the weight of its slice: parse_time_ranges, *)
(* the label f"{time_range[0]}-{time_range[1]}s" of run_psd_analysis and    *)
(* the duration _process_psd_results reads back from the label.             *)

DigitChar(d) == <<"0", "1", "2", "3", "4", "5", "6", "7", "8", "9">>[d + 1]

\* the decimal digits of an integer n >= 0
RECURSIVE IntChars(_)
IntChars(n) == IF n < 10 THEN <<DigitChar(n)>> ELSE IntChars(n \div 10) \o <<DigitChar(n % 10)>>

\* the decimal digits of r / d behind the point, 0 <= r < d, d a product of 2s and 5s
RECURSIVE FracChars(_, _)
FracChars(r, d) ==
    IF r = 0 THEN <<>> ELSE <<DigitChar((r * 10) \div d)>> \o FracChars((r * 10) % d, d)

\* repr of a float in [1e-4, 1e16) or of 0.0: digits, point, at least one digit
FixedRepr(x) ==
    IntChars(x.n \div x.d) \o <<".">>
        \o (IF x.n % x.d = 0 THEN <<"0">> ELSE FracChars(x.n % x.d, x.d))

\* the least k with x * 10^k >= 1, for 0 < x < 1
RECURSIVE ExponentOf(_, _)
ExponentOf(x, k) == IF x.n * Pow10(k) >= x.d THEN k ELSE ExponentOf(x, k + 1)

\* the mantissa of the exponent form: no point when it is a whole number
MantissaRepr(m) ==
    IntChars(m.n \div m.d)
        \o (IF m.d = 1 THEN <<>> ELSE <<".">> \o FracChars(m.n % m.d, m.d))

\* repr of a float in (0, 1e-4): mantissa, 'e-', two digits of exponent
ScientificRepr(x, k) ==
    MantissaRepr(FMul(x, Int2F(Pow10(k))))
        \o <<"e", "-">> \o (IF k < 10 THEN <<"0">> ELSE <<>>) \o IntChars(k)

UnsignedRepr(x) ==
    IF x.n > 0 /\ x.n * 10000 < x.d THEN ScientificRepr(x, ExponentOf(x, 1)) ELSE FixedRepr(x)

\* what an f-string writes for a float (values of 1e16 and above are not typed here)
FloatRepr(x) ==
    IF IsNaN(x) THEN <<"n", "a", "n">>
    ELSE IF x.n < 0 THEN <<"-">> \o UnsignedRepr(FNeg(x))
    ELSE UnsignedRepr(x)

\* time_range_str = f"{time_range[0]}-{time_range[1]}s", as characters
TimeRangeLabel(time_range) ==
    FloatRepr(time_range.e[1]) \o <<"-">> \o FloatRepr(time_range.e[2]) \o <<"s">>

\* int(x) of a float: towards zero
TruncInt(x) == IF x.n < 0 THEN -((-x.n) \div x.d) ELSE x.n \div x.d

\* 'if id_st < 0 or id_end <= id_st: continue' of time_slicer_and_spectrogram
SliceSkipped(time_range, fs) ==
    \/ TruncInt(FMul(time_range.e[1], Int2F(fs))) < 0
    \/ TruncInt(FMul(time_range.e[2], Int2F(fs)))
          <= TruncInt(FMul(time_range.e[1], Int2F(fs)))

\* the numbers the model types as start and as end of a range
StartTexts ==
    { <<"0">>, <<"1">>, <<"2", ".", "5">>, <<".", "5">>, <<"1", "0">>, <<"-", "1">>,
      <<"0", ".", "0", "0", "0", "0", "1">>, <<"0", ".", "0", "0", "0", "1">>,
      <<"0", ".", "0", "0", "0", "0", "2", "5">>, <<"n", "a", "n">>, <<"x">> }
EndTexts ==
    { <<"1">>, <<"2">>, <<"1", "0">>, <<"0", ".", "5">>, <<"2", ".", "5">>, <<"1", "2", ".", "2", "5">>,
      <<"0", ".", "0", "0", "0", "1">>, <<"n", "a", "n">> }

\* the text input takes a text
TypeRange ==
    /\ run.mode = "label"
    /\ pc \in {"no_ranges", "label_raised", "weight"}
    /\ \E a \in StartTexts, b \in EndTexts : run' = [run EXCEPT !.text = a \o <<" ">> \o b]
    /\ pc' = "text"
    /\ results' = None
    /\ writes' = <<>>
    /\ chanAcc' = <<>>
    /\ UNCHANGED <<all_results, fam, fi, ci, fileAcc, frequencies, session>>

\* parsed_ranges = utils.parse_time_ranges(text_input)
ParseRangeText ==
    /\ run.mode = "label"
    /\ pc = "text"
    /\ results' = parse_time_ranges(run.text)
    /\ pc' = IF IsNone(results') THEN "no_ranges" ELSE "ranges"
    /\ UNCHANGED <<all_results, fam, fi, ci, chanAcc, fileAcc, frequencies, writes, session,
                   run>>

\* whether psd_calc_python raises for the range: int(nan * fs) raises in
\* time_slicer_and_spectrogram; for a skipped slice psd_welch is handed an
\* empty signal, and scipy either returns empty arrays or raises
SliceRaises(time_range, fs) ==
    IF IsNaN(time_range.e[1]) \/ IsNaN(time_range.e[2]) THEN {TRUE}
    ELSE IF SliceSkipped(time_range, fs) THEN BOOLEAN
    ELSE {FALSE}

\* one turn of the time-range loop of run_psd_analysis
LabelRange ==
    /\ run.mode = "label"
    /\ pc = "ranges"
    /\ \E raised \in SliceRaises(results.e[1], ConfiguredFs) :
          /\ pc' = IF raised THEN "label_raised" ELSE "label"
          /\ writes' = IF raised THEN <<>>
                       ELSE <<[time_range |-> results.e[1],
                               label |-> TimeRangeLabel(results.e[1])]>>
    /\ UNCHANGED <<all_results, results, fam, fi, ci, chanAcc, fileAcc, frequencies, session,
                   run>>

\* durations.append(...) of _process_psd_results for the slice
WeightOfLabel ==
    /\ run.mode = "label"
    /\ pc = "label"
    /\ chanAcc' = <<DurationOfChars(writes[1].label)>>
    /\ pc' = "weight"
    /\ UNCHANGED <<all_results, results, fam, fi, ci, fileAcc, frequencies, writes, session,
                   run>>

InitLabel ==
    /\ all_results = PyDict(<<>>)
    /\ \E a \in StartTexts, b \in EndTexts :
          run = [mode |-> "label", text |-> a \o <<" ">> \o b]
    /\ results = None
    /\ pc = "text"
    /\ fam = 0 /\ fi = 1 /\ ci = 1
    /\ chanAcc = <<>> /\ fileAcc = <<>>
    /\ frequencies = None
    /\ writes = <<>>
    /\ session = InitialSession

NextLabel == TypeRange \/ ParseRangeText \/ LabelRange \/ WeightOfLabel

SpecLabel == InitLabel /\ [][NextLabel]_vars

\* C25: the label written for an accepted time range is read back to the
\* weight end - start; the fallback weight 1 is never used for it.
C25_LabelReadBack ==
    (run.mode = "label" /\ pc = "weight") =>
        /\ ReMatchSlice(writes[1].label).ok
        /\ chanAcc[1] = FSub(writes[1].time_range.e[2], writes[1].time_range.e[1])

-----------------------------------------------------------------------------
(* PSD trees whose channels were recorded at different sampling rates:     *)
(* run_psd_analysis derives fs_to_use per channel, welch returns the axis  *)
(* k * fs_to_use / nfft, and nfft is the same for the whole run.           *)

\* fs_to_use / nfft of a channel, in hertz per bin
BinSpacings == {1, 2}

\* freqs of signal.welch for a bin spacing
WelchAxis(spacing) == PyList([k \in 1..NBins |-> Int2F((k - 1) * spacing)])

AxisShape(nF, nC, nS) ==
    [nF |-> nF, nC |-> nC, nS |-> nS, hole |-> "none", lab |-> "std",
     vpat |-> "byslice", variant |-> "plain", present |-> "psd_results"]

\* {'band_power': ..., 'full_psd': {'power': ..., 'frequencies': freqs.tolist()}}
AxisLeaf(inp, f, c, s, spacing) ==
    Put(PsdLeaf(inp, f, c, s), "full_psd",
        Put(Get(PsdLeaf(inp, f, c, s), "full_psd"), "frequencies", WelchAxis(spacing)))

\* the PSD tree of run_psd_analysis, channel c of file f with spacing[f][c]
AxisTree(inp, spacing) ==
    PyDict([f \in 1..inp.nF |->
              Entry(FileNames[f],
                    PyDict([c \in 1..inp.nC |->
                              Entry(ChannelNames[c],
                                    PyDict([s \in 1..inp.nS |->
                                              Entry(StdLabels[s],
                                                    AxisLeaf(inp, f, c, s, spacing[f][c]))]))]))])

\* calculate_hierarchical_means({'psd_results': tree})
ProcessAxes ==
    /\ run.mode = "axis"
    /\ pc = "call"
    /\ \E r \in {ProcessResults("psd_results", AxisTree(run.inp, run.spacing))} :
          /\ all_results' = PyDict(<<Entry("psd_results", r.node)>>)
          /\ frequencies' = r.freq
    /\ results' = CleanNans(all_results')
    /\ pc' = "returned"
    /\ UNCHANGED <<fam, fi, ci, chanAcc, fileAcc, writes, session, run>>

InitAxes ==
    /\ \E nF \in 1..MaxFiles, nC \in 1..MaxChans, nS \in 1..MaxSlices :
          \E spacing \in [1..nF -> [1..nC -> BinSpacings]] :
              run = [mode |-> "axis", inp |-> AxisShape(nF, nC, nS), spacing |-> spacing]
    /\ all_results = PyDict(<<>>)
    /\ results = PyFalse
    /\ pc = "call"
    /\ fam = 0 /\ fi = 1 /\ ci = 1
    /\ chanAcc = <<>> /\ fileAcc = <<>>
    /\ frequencies = None
    /\ writes = <<>>
    /\ session = InitialSession

NextAxes == ProcessAxes

SpecAxes == InitAxes /\ [][NextAxes]_vars

\* 'frequencies' of the full_psd of a summary node
SummaryAxis(node, key) == Get(Get(Get(node, key), "full_psd"), "frequencies")

ReturnedFile(f) == Get(Get(results, "psd_results"), FileNames[f])

\* the spacings of the leaves below a file and below the whole tree
FileSpacings(f) == {run.spacing[f][c] : c \in 1..run.inp.nC}
TreeSpacings == UNION {FileSpacings(f) : f \in 1..run.inp.nF}

\* C28: every PSD summary node stores the frequency axis of the leaves it
\* aggregates, also when channels or files differ in sampling rate (checked
\* for every node whose leaves share one axis).
C28_SummaryAxisIsLeafAxis ==
    (run.mode = "axis" /\ pc = "returned") =>
        /\ \A f \in 1..run.inp.nF :
              /\ \A c \in 1..run.inp.nC :
                    SummaryAxis(Get(ReturnedFile(f), ChannelNames[c]), "mean_across_time")
                        = WelchAxis(run.spacing[f][c])
              /\ \A sp \in BinSpacings :
                    FileSpacings(f) = {sp}
                        => SummaryAxis(ReturnedFile(f), "mean_across_channels") = WelchAxis(sp)
        /\ \A sp \in BinSpacings :
              TreeSpacings = {sp}
                  => SummaryAxis(Get(results, "psd_results"), "grand_mean") = WelchAxis(sp)

-----------------------------------------------------------------------------
(* The grand-mean sheets of export_utils.export_to_excel                    *)

\* the grand-mean sheets export_to_excel writes for the returned results
GrandMeanSheets(exported) ==
    (IF Has(GetOr(exported, "psd_results", PyDict(<<>>)), "grand_mean")
     THEN {"Grand_Mean_PSD_Band"} ELSE {})
    \cup (IF /\ Has(GetOr(exported, "pac_results", PyDict(<<>>)), "grand_mean")
             /\ Has(GetOr(exported, "pac_results", PyDict(<<>>)), "grand_sem")
          THEN {"Grand_Mean_PAC"} ELSE {})
    \cup (IF Has(GetOr(exported, "coh_results", PyDict(<<>>)), "grand_mean")
          THEN {"Grand_Mean_Coherence"} ELSE {})

\* the family has a grand mean in the returned results
HasGrandMean(exported, family) ==
    Has(exported, family) /\ Has(Get(exported, family), "grand_mean")

\* C29: whenever the PAC pass has written a grand mean, export_to_excel
\* writes the Grand_Mean_PAC sheet, as it writes the PSD and coherence
\* grand-mean sheets when their grand_mean exists.
C29_PacGrandMeanExported ==
    pc = "returned" =>
        /\ HasGrandMean(results, "psd_results") => "Grand_Mean_PSD_Band" \in GrandMeanSheets(results)
        /\ HasGrandMean(results, "coh_results") => "Grand_Mean_Coherence" \in GrandMeanSheets(results)
        /\ HasGrandMean(results, "pac_results") => "Grand_Mean_PAC" \in GrandMeanSheets(results)

-----------------------------------------------------------------------------
(* The PSD pass on trees whose channels differ in the number of their      *)
(* slices, so that channels and files differ in weight                     *)

\* the numbers of slices a channel is given
SliceCounts == {1, MaxSlices}

RollupShapes ==
    [nF : 1..MaxFiles, nC : 1..MaxChans, nS : {MaxSlices}, hole : {"none"},
     lab : {"std", "odd"}, vpat : {"bychan", "byfile"}, variant : {"plain"},
     present : {"psd_results"}]

\* the PSD tree with counts[f][c] slices in channel c of file f
RollupTree(inp, counts) ==
    PyDict([f \in 1..inp.nF |->
              Entry(FileNames[f],
                    PyDict([c \in 1..inp.nC |->
                              Entry(ChannelNames[c],
                                    PyDict([s \in 1..counts[f][c] |->
                                              Entry(Labels(inp)[s],
                                                    PsdLeaf(inp, f, c, s))]))]))])

\* calculate_hierarchical_means({'psd_results': tree})
ProcessRollup ==
    /\ run.mode = "rollup"
    /\ pc = "call"
    /\ \E r \in {ProcessResults("psd_results", RollupTree(run.inp, run.counts))} :
          /\ all_results' = PyDict(<<Entry("psd_results", r.node)>>)
          /\ frequencies' = r.freq
    /\ results' = CleanNans(all_results')
    /\ pc' = "returned"
    /\ UNCHANGED <<fam, fi, ci, chanAcc, fileAcc, writes, session, run>>

InitRollup ==
    /\ \E inp \in RollupShapes :
          \E counts \in [1..inp.nF -> [1..inp.nC -> SliceCounts]] :
              run = [mode |-> "rollup", inp |-> inp, counts |-> counts]
    /\ all_results = PyDict(<<>>)
    /\ results = PyFalse
    /\ pc = "call"
    /\ fam = 0 /\ fi = 1 /\ ci = 1
    /\ chanAcc = <<>> /\ fileAcc = <<>>
    /\ frequencies = None
    /\ writes = <<>>
    /\ session = InitialSession

NextRollup == ProcessRollup

SpecRollup == InitRollup /\ [][NextRollup]_vars

RECURSIVE ConcatAll(_)
ConcatAll(seqs) == IF seqs = <<>> THEN <<>> ELSE Head(seqs) \o ConcatAll(Tail(seqs))

\* the time-slice leaves of all channels of a file that carry band power
FileLeaves(file) ==
    ConcatAll([c \in 1..Len(NonReserved(file)) |-> PsdKids(NonReserved(file)[c].v)])

\* the time-slice leaves of all channels of all files of a PSD tree
TreeLeaves(t) ==
    ConcatAll([f \in 1..Len(NonReserved(t)) |-> FileLeaves(NonReserved(t)[f].v)])

\* 'means' of the band power of a summary node
BandMeans(node, key) == Get(Get(Get(node, key), "band_power"), "means")

\* C23: the PSD grand mean of every band is sum(d * m) / sum(d) over all
\* time-slice leaves of all channels of all files, d being the slice weight
\* and m the band mean of the slice.
C23_FlatGrandMean ==
    (run.mode = "rollup" /\ pc = "returned") =>
        \A j \in 1..NBands :
            IsWeightedMean(BandMeans(Get(results, "psd_results"), "grand_mean"),
                           TreeLeaves(Get(results, "psd_results")), "band_power", "means", j)

\* two files of different weight and different mean: the grand mean is not
\* the plain average of the two file means
C23_Witness ==
    /\ run.mode = "rollup" /\ pc = "returned"
    /\ run.inp.nF = MaxFiles /\ run.inp.nC = MaxChans
    /\ \E f \in 1..run.inp.nF, c \in 1..run.inp.nC : run.counts[f][c] # run.counts[1][1]
    /\ Len(TreeLeaves(Get(results, "psd_results"))) > MaxFiles * MaxChans
    /\ FMul(BandMeans(Get(results, "psd_results"), "grand_mean").e[1], Int2F(MaxFiles))
          # FSum([f \in 1..MaxFiles |->
                    BandMeans(Get(Get(results, "psd_results"), FileNames[f]),
                              "mean_across_channels").e[1]])

-----------------------------------------------------------------------------
\* the walked files of a returned tree
WalkedFiles(t) == {i \in 1..Len(t.e) : ~Skipped(t.e[i])}

\* PSD and coherence: a file has its cross-channel summary exactly when one of
\* its channels / pairs has mean_across_time, and the tree has grand_mean
\* exactly when one of its files has the cross-channel summary
SummaryKeysConsistent(f) ==
    LET t == Get(results, f)
    IN /\ \A i \in WalkedFiles(t) :
             Has(t.e[i].v, FileKey(f)) <=> WithKey(t.e[i].v, "mean_across_time") # {}
       /\ Has(t, "grand_mean") <=> WithKey(t, FileKey(f)) # {}

\* node[key] exists and has the band
HasBandSummary(node, key, band) == Has(node, key) /\ Has(Get(node, key), band)

\* a channel of a PAC file has mean_across_time under the band
PacChannelHasBand(channels, band) ==
    \E j \in 1..Len(channels.e) :
        /\ ~Skipped(channels.e[j])
        /\ Has(channels.e[j].v, band)
        /\ ~Skipped(Entry(band, Get(channels.e[j].v, band)))
        /\ Has(Get(channels.e[j].v, band), "mean_across_time")

\* the same for PAC, band by band
PacKeysConsistent ==
    LET t == Get(results, "pac_results")
    IN \A b \in 1..NBands :
          /\ \A i \in WalkedFiles(t) :
                HasBandSummary(t.e[i].v, "mean_across_channels", PacBandNames[b])
                    <=> PacChannelHasBand(t.e[i].v, PacBandNames[b])
          /\ HasBandSummary(t, "grand_mean", PacBandNames[b])
                <=> \E i \in WalkedFiles(t) :
                       HasBandSummary(t.e[i].v, "mean_across_channels", PacBandNames[b])

\* C24: after a pass the summary keys agree across the levels: a file has
\* mean_across_channels / mean_across_pairs exactly when one of its channels /
\* pairs has mean_across_time, the tree has grand_mean exactly when one of its
\* files has the cross-channel summary; for PAC band by band.
C24_SummaryKeysConsistent ==
    (pc = "returned" /\ IsDict(results)) =>
        /\ Has(results, "psd_results") => SummaryKeysConsistent("psd_results")
        /\ Has(results, "coh_results") => SummaryKeysConsistent("coh_results")
        /\ Has(results, "pac_results") => PacKeysConsistent

\* a returned call on all families where the last file has no channels: it
\* has no summary, the first file has one, and the grand mean exists
C24_Witness ==
    /\ pc = "returned" /\ IsDict(results)
    /\ \A f \in {"psd_results", "coh_results", "pac_results"} :
          /\ Has(results, f)
          /\ Has(Get(results, f), "grand_mean")
          /\ \E i \in WalkedFiles(Get(results, f)) : ~Has(Get(results, f).e[i].v, FileKey(f))
          /\ \E i \in WalkedFiles(Get(results, f)) : Has(Get(results, f).e[i].v, FileKey(f))

====
